---- MODULE Spec2Model ----
(***************************************************************************)
(* Model of the rog-server room lifecycle engine: the session registry     *)
(* (SocketServer), the game manager (GameManager), the abstract Game and   *)
(* the round loops of the concrete games that the manager can create       *)
(* (Hilar, Duel, Chat).                                                    *)
(*                                                                         *)
(* The server is single threaded: every handler runs to completion, and a  *)
(* round loop runs from one await to the next without interruption.  Each  *)
(* action below is one such uninterrupted run.  A handler is written as an *)
(* operator from the state it starts in to a record                        *)
(*    [ret |-> its return value, out |-> what it emitted, st |-> the state *)
(*     it leaves],                                                         *)
(* and the action that models the handler installs st.                     *)
(***************************************************************************)
EXTENDS Integers, Sequences, FiniteSets, TLC

(***************************************************************************)
(* Bounds of the model.                                                    *)
(***************************************************************************)
NumUsers == 3
NumCodes == 2
MaxGames == 2
PlayGames == 1
MaxSockets == 3
MaxListeners == 1
MaxLoops == 1
MaxDuelRounds == 2
MaxMessages == 1
MaxClock == 1
MaxHilarPlayers == 3
MaxAssignPlayers == 4
MaxPrompts == 4
MaxResponses == 2
MaxVotes == 1
MaxBattleRounds == 2
MaxHoldemRooms == 2
MaxRoundTotal == 3
MaxPot == 9
MaxHands == 1
MaxScore == 1
LowMoney == 3

Users == 1..NumUsers
Codes == 1..NumCodes
GameRefs == 1..MaxGames

(***************************************************************************)
(* Program constants.                                                      *)
(***************************************************************************)
N_ROUNDS == 3
POINTS_PER_RESPONSE == 50
ROUND_BONUS_POINTS == 50
STARTING_HEALTH == 100
SHOT_DAMAGE == 8
HOLDEM_N_ROUNDS == 3
HOLDEM_MIN_PLAYERS == 3
HOLDEM_MAX_PLAYERS == 10
DECK_SIZE == 52
STARTING_MONEY == 200
BIG_BLIND == 2
SMALL_BLIND == BIG_BLIND \div 2
BET_LIMIT == BIG_BLIND * 5

\* The game ids a client may put in a createGame payload; createGame knows
\* the first three.
RequestedGameIds == {"HILAR", "DUEL", "CHAT", "HOLDEM"}

HILAR_GAME_CONFIG ==
  [gameId |-> "HILAR", minPlayers |-> 2, maxPlayers |-> 8,
   canJoinAfterBegin |-> "false", canLeaveAfterBegin |-> "false"]

\* Duel's configuration leaves canJoinAfterBegin and canLeaveAfterBegin unset.
DUEL_GAME_CONFIG ==
  [gameId |-> "DUEL", minPlayers |-> 2, maxPlayers |-> 2,
   canJoinAfterBegin |-> "undefined", canLeaveAfterBegin |-> "undefined"]

CHAT_GAME_CONFIG ==
  [gameId |-> "CHAT", minPlayers |-> 1, maxPlayers |-> 32,
   canJoinAfterBegin |-> "true", canLeaveAfterBegin |-> "true"]

gameConfig(gameId) ==
  CASE gameId = "HILAR" -> HILAR_GAME_CONFIG
    [] gameId = "DUEL" -> DUEL_GAME_CONFIG
    [] OTHER -> CHAT_GAME_CONFIG

\* JavaScript truthiness of a configuration flag.
Truthy(flag) == flag = "true"

VARIABLES
  games,                 \* every Game object constructed so far, by reference
  activeGames,           \* GameManager.activeGames: join code -> Game ref, 0 = no entry
  alreadyGeneratedCodes, \* JoinCodeGenerator.alreadyGeneratedCodes
  clients,               \* SocketServer.clients: user id -> SocketClient ref, 0 = no entry
  sockUser,              \* every SocketClient constructed so far: ref -> its user
  listeners,             \* per socket: the games whose handlers were attached, in order
  timers,                \* the pending 10 minute setTimeout callbacks, oldest first
  loops,                 \* every onBegin invocation: its position
  blocked,               \* TRUE when the event loop is stuck in a synchronous loop
  hilar,                 \* one Hilar object in detail (the Hilar specification)
  battle,                \* one Duel object in detail (the Duel specification)
  holdem,                \* the Holdem objects and the card module (the Holdem specification)
  promise                \* one createWaitUntilTimeout call: its promise, interval and timeout

vars == <<games, activeGames, alreadyGeneratedCodes, clients, sockUser,
          listeners, timers, loops, blocked, hilar, battle, holdem, promise>>

\* The value of hilar, battle, holdem and promise in the specifications that do not
\* look into the games.
Idle == [pc |-> "none"]

\* The state the handlers read and write, as one record.
St ==
  [games |-> games, activeGames |-> activeGames, clients |-> clients,
   sockUser |-> sockUser, listeners |-> listeners,
   timers |-> timers, loops |-> loops, blocked |-> blocked]

Install(st) ==
  /\ games' = st.games
  /\ activeGames' = st.activeGames
  /\ clients' = st.clients
  /\ sockUser' = st.sockUser
  /\ listeners' = st.listeners
  /\ timers' = st.timers
  /\ loops' = st.loops
  /\ blocked' = st.blocked
  /\ UNCHANGED <<alreadyGeneratedCodes, hilar, battle, holdem, promise>>

Range(f) == {f[x] : x \in DOMAIN f}

(***************************************************************************)
(* Emitted events.  An emit goes to a set of sockets: one socket for       *)
(* socket.emit and sendOne, the sockets of the roster for sendAll.         *)
(***************************************************************************)
Emit(sock, ev, arg) == <<[to |-> {sock}, ev |-> ev, arg |-> arg]>>

\* Game.sendOne
sendOne(st, userId, ev, arg) ==
  IF st.clients[userId] = 0 THEN <<>>
  ELSE Emit(st.clients[userId], ev, arg)

\* The sockets Game.sendAll reaches: the roster members with a client.
Audience(st, g) ==
  {st.clients[p] : p \in {q \in st.games[g].players : st.clients[q] # 0}}

\* Game.sendAll
sendAll(st, g, ev, arg) ==
  IF Audience(st, g) = {} THEN <<>>
  ELSE <<[to |-> Audience(st, g), ev |-> ev, arg |-> arg]>>

\* Game.broadcastPlayers
broadcastPlayers(st, g) ==
  sendAll(st, g, "gamePlayers", st.games[g].players)

\* Game.sendPlayersTo
sendPlayersTo(st, g, userId) ==
  sendOne(st, userId, "gamePlayers", st.games[g].players)

(***************************************************************************)
(* Game: construction and roster.                                          *)
(***************************************************************************)
\* Game constructor, with the field initialisers of Hilar, Duel and Chat.
NewGame(joinCode, creatorId, gameId) ==
  [joinCode |-> joinCode,
   creatorId |-> creatorId,
   gameId |-> gameId,
   players |-> {},
   hasBegun |-> FALSE,
   currentRound |-> 0,
   currentRoundStage |-> IF gameId = "HILAR" THEN "LOAD"
                         ELSE IF gameId = "DUEL" THEN "MENU" ELSE "NONE",
   nQuestions |-> 0,     \* Hilar: currentQuestions.length
   ready |-> {},         \* Duel: the players whose ready flag is set
   dead |-> {},          \* Duel: the players whose health is 0
   allReady |-> [id |-> 0, pass |-> FALSE],
   roundOver |-> [id |-> 0, pass |-> FALSE],
   stale |-> {},         \* Duel: the replaced TimerState objects whose pass is true
   winner |-> 0,
   messages |-> 0,       \* Chat: messages.length
   removedBy |-> "none"] \* history: what deleted the game from activeGames

\* Game.addPlayer
addPlayer(st, g, userId) ==
  IF \/ userId \in st.games[g].players
     \/ Cardinality(st.games[g].players) >= gameConfig(st.games[g].gameId).maxPlayers
  THEN st
  ELSE [st EXCEPT !.games[g].players = @ \cup {userId}]

\* Game.removePlayer
removePlayer(st, g, userId) ==
  [st EXCEPT !.games[g].players = @ \ {userId},
             !.games[g].ready = @ \ {userId},
             !.games[g].dead = @ \ {userId}]

\* Game.addHandlers of Hilar, Duel and Chat: socket.on(...) appends listeners.
addHandlers(st, g, sock) ==
  [st EXCEPT !.listeners[sock] = Append(@, g)]

RECURSIVE addHandlersTo(_, _, _)
addHandlersTo(st, g, socks) ==
  IF socks = {} THEN st
  ELSE LET s == CHOOSE x \in socks : \A y \in socks : x <= y
       IN addHandlersTo(addHandlers(st, g, s), g, socks \ {s})

\* Game.addAllHandlers
addAllHandlers(st, g) == addHandlersTo(st, g, Audience(st, g))

(***************************************************************************)
(* GameManager queries.                                                    *)
(***************************************************************************)
\* The Game objects that are values of activeGames.
LiveGames(st) == {st.activeGames[c] : c \in {d \in Codes : st.activeGames[d] # 0}}

\* A faulty playerInGame that never finds the user.
playerInGame_Never(st, userId) == FALSE

\* GameManager.playerInGame
playerInGame(st, userId) ==
  \E g \in LiveGames(st) : userId \in st.games[g].players

\* GameManager.getPlayerGame: the first game of activeGames.values() holding
\* the user, 0 for null.
getPlayerGame(st, userId) ==
  IF playerInGame(st, userId)
  THEN CHOOSE g \in LiveGames(st) : userId \in st.games[g].players
  ELSE 0

\* JoinCodeGenerator.generateCode: the codes one call may return.
generateCode == Codes \ alreadyGeneratedCodes

(***************************************************************************)
(* Round loops.  A loop record is one invocation of onBegin:               *)
(*   g  the game, pc the await it is suspended at ("done" once onBegin has *)
(*   returned, "hung" when its promise can no longer resolve),             *)
(*   i  Hilar: the round index of onBegin's for loop,                      *)
(*   q  Hilar: the question index of playRound's for loop,                 *)
(*   sig Duel: the TimerState object the loop polls.                       *)
(***************************************************************************)
NewLoop(g) == [g |-> g, pc |-> "start", i |-> 0, q |-> 0, sig |-> 0]

JoinTimer(g) == [kind |-> "join", g |-> g, l |-> 0, sig |-> 0]
ReadyTimer(g, l, sig) == [kind |-> "ready", g |-> g, l |-> l, sig |-> sig]

\* Hilar.assignQuestions can draw the same prompt twice for the last player
\* and then spins forever in its do-while; with 3 or more players some
\* sequence of draws leaves the last player the pool [x, x].
assignQuestionsCanSpin(nPlayers) == nPlayers >= 3

\* Hilar.playRound from its entry to the RESPOND wait.  spin: the random
\* draws of assignQuestions make it loop forever.
hilarPlayRound(st, l, spin) ==
  LET g == st.loops[l].g
      test == sendOne(st, st.games[g].creatorId, "hilarTEST", "htest")
      st1 == [st EXCEPT !.games[g].currentRound = @ + 1,
                        !.games[g].currentRoundStage = "LOAD",
                        !.games[g].nQuestions = Cardinality(st.games[g].players)]
  IN IF spin /\ assignQuestionsCanSpin(Cardinality(st.games[g].players))
     THEN [out |-> test, st |-> [st1 EXCEPT !.blocked = TRUE]]
     ELSE [out |-> test \o sendAll(st1, g, "hilarQuestions", "questions"),
           st |-> [st1 EXCEPT !.games[g].currentRoundStage = "RESPOND",
                              !.loops[l].pc = "respond"]]

\* Duel.playRound from its entry to the ready-up wait.
duelPlayRound(st, l) ==
  LET g == st.loops[l].g
      old == st.games[g]
      id == old.currentRound + 1
      st1 == [st EXCEPT !.games[g].currentRound = id,
                        !.games[g].currentRoundStage = "MENU",
                        !.games[g].allReady = [id |-> id, pass |-> FALSE],
                        !.games[g].roundOver = [id |-> id, pass |-> FALSE],
                        !.games[g].stale =
                            @ \cup (IF old.allReady.pass
                                    THEN {<<"allReady", old.allReady.id>>} ELSE {})
                              \cup (IF old.roundOver.pass
                                    THEN {<<"roundOver", old.roundOver.id>>} ELSE {}),
                        !.games[g].ready = {}]
  IN [out |-> sendAll(st1, g, "duelMenu", "stats")
                \o sendAll(st1, g, "duelReadyState", [ready |-> {}, allReady |-> FALSE]),
      st |-> [st1 EXCEPT !.loops[l].pc = "menu",
                         !.loops[l].sig = id,
                         !.timers = Append(@, ReadyTimer(g, l, id))]]

\* onBegin of Hilar, Duel and Chat, from its entry to its first await.
onBegin(st, g, spin) ==
  LET l == Len(st.loops) + 1
      st1 == addAllHandlers([st EXCEPT !.loops = Append(@, NewLoop(g))], g)
  IN CASE st.games[g].gameId = "HILAR" -> hilarPlayRound(st1, l, spin)
       [] st.games[g].gameId = "DUEL" -> duelPlayRound(st1, l)
       [] OTHER -> [out |-> <<>>, st |-> [st1 EXCEPT !.loops[l].pc = "done"]]

\* Game.beginGame
gameBeginGame(st, g, spin) ==
  LET st1 == [st EXCEPT !.games[g].hasBegun = TRUE]
      b == onBegin(st1, g, spin)
  IN [out |-> sendAll(st1, g, "gameBegin", "none") \o b.out, st |-> b.st]

(***************************************************************************)
(* GameManager commands.  sock is the SocketClient the command arrived on. *)
(***************************************************************************)
Reject(st, sock, module, message) ==
  [ret |-> FALSE,
   out |-> Emit(sock, "gameError", [module |-> module, message |-> message]),
   st |-> st]

\* The emit sequence out is one gameError sent to sock alone.
IsErrorTo(out, sock) ==
  Len(out) = 1 /\ out[1].to = {sock} /\ out[1].ev = "gameError"

\* The names of the events of the emit sequence out that reach sock, in order.
EventsTo(out, sock) ==
  LET mine == SelectSeq(out, LAMBDA e : sock \in e.to)
  IN [i \in DOMAIN mine |-> mine[i].ev]

IsFull(game) == Cardinality(game.players) >= gameConfig(game.gameId).maxPlayers

\* A faulty joinGame without the capacity check.
joinGame_NoFullCheck(st, joinCode, sock, isHost) ==
  LET userId == st.sockUser[sock]
      g == st.activeGames[joinCode]
  IN IF playerInGame(st, userId)
     THEN Reject(st, sock, "JOIN", "already in game")
     ELSE IF g = 0
     THEN Reject(st, sock, "JOIN", "does not exist")
     ELSE IF st.games[g].hasBegun
             /\ ~Truthy(gameConfig(st.games[g].gameId).canJoinAfterBegin)
     THEN Reject(st, sock, "JOIN", "already begun")
     ELSE LET st1 == addPlayer(st, g, userId)
              st2 == IF st1.games[g].hasBegun THEN addHandlers(st1, g, sock) ELSE st1
          IN [ret |-> TRUE,
              out |-> Emit(sock, "gameInfo",
                           [gameId |-> st2.games[g].gameId,
                            joinCode |-> st2.games[g].joinCode,
                            isHost |-> isHost,
                            hasBegun |-> st2.games[g].hasBegun])
                      \o broadcastPlayers(st2, g),
              st |-> st2]

\* A faulty joinGame without the check for a room that has begun.
joinGame_NoBegunCheck(st, joinCode, sock, isHost) ==
  LET userId == st.sockUser[sock]
      g == st.activeGames[joinCode]
  IN IF playerInGame(st, userId)
     THEN Reject(st, sock, "JOIN", "already in game")
     ELSE IF g = 0
     THEN Reject(st, sock, "JOIN", "does not exist")
     ELSE IF Cardinality(st.games[g].players) >= gameConfig(st.games[g].gameId).maxPlayers
     THEN Reject(st, sock, "JOIN", "full")
     ELSE LET st1 == addPlayer(st, g, userId)
              st2 == IF st1.games[g].hasBegun THEN addHandlers(st1, g, sock) ELSE st1
          IN [ret |-> TRUE,
              out |-> Emit(sock, "gameInfo",
                           [gameId |-> st2.games[g].gameId,
                            joinCode |-> st2.games[g].joinCode,
                            isHost |-> isHost,
                            hasBegun |-> st2.games[g].hasBegun])
                      \o broadcastPlayers(st2, g),
              st |-> st2]

\* GameManager.joinGame
joinGame(st, joinCode, sock, isHost) ==
  LET userId == st.sockUser[sock]
      g == st.activeGames[joinCode]
  IN IF playerInGame(st, userId)
     THEN Reject(st, sock, "JOIN", "already in game")
     ELSE IF g = 0
     THEN Reject(st, sock, "JOIN", "does not exist")
     ELSE IF Cardinality(st.games[g].players) >= gameConfig(st.games[g].gameId).maxPlayers
     THEN Reject(st, sock, "JOIN", "full")
     ELSE IF st.games[g].hasBegun
             /\ ~Truthy(gameConfig(st.games[g].gameId).canJoinAfterBegin)
     THEN Reject(st, sock, "JOIN", "already begun")
     ELSE LET st1 == addPlayer(st, g, userId)
              st2 == IF st1.games[g].hasBegun THEN addHandlers(st1, g, sock) ELSE st1
          IN [ret |-> TRUE,
              out |-> Emit(sock, "gameInfo",
                           [gameId |-> st2.games[g].gameId,
                            joinCode |-> st2.games[g].joinCode,
                            isHost |-> isHost,
                            hasBegun |-> st2.games[g].hasBegun])
                      \o broadcastPlayers(st2, g),
              st |-> st2]

\* A faulty attemptRejoin that does not attach the handlers.
attemptRejoin_NoHandlers(st, sock) ==
  LET userId == st.sockUser[sock]
      g == getPlayerGame(st, userId)
  IN IF g = 0 THEN [ret |-> FALSE, out |-> <<>>, st |-> st]
     ELSE [ret |-> TRUE,
           out |-> Emit(sock, "gameInfo",
                        [gameId |-> st.games[g].gameId,
                         joinCode |-> st.games[g].joinCode,
                         isHost |-> st.games[g].creatorId = userId,
                         hasBegun |-> st.games[g].hasBegun])
                   \o sendPlayersTo(st, g, userId),
           st |-> st]

\* GameManager.attemptRejoin
attemptRejoin(st, sock) ==
  LET userId == st.sockUser[sock]
      g == getPlayerGame(st, userId)
  IN IF g = 0 THEN [ret |-> FALSE, out |-> <<>>, st |-> st]
     ELSE LET st1 == addHandlers(st, g, sock)
          IN [ret |-> TRUE,
              out |-> Emit(sock, "gameInfo",
                           [gameId |-> st1.games[g].gameId,
                            joinCode |-> st1.games[g].joinCode,
                            isHost |-> st1.games[g].creatorId = userId,
                            hasBegun |-> st1.games[g].hasBegun])
                      \o sendPlayersTo(st1, g, userId),
              st |-> st1]

\* A faulty beginGame without the creator check.
beginGame_NoCreatorCheck(st, sock, spin) ==
  LET userId == st.sockUser[sock]
      g == getPlayerGame(st, userId)
  IN IF g = 0
     THEN Reject(st, sock, "BEGIN", "not in a game")
     ELSE IF Cardinality(st.games[g].players) < gameConfig(st.games[g].gameId).minPlayers
     THEN Reject(st, sock, "BEGIN", "too small")
     ELSE LET b == gameBeginGame(st, g, spin)
          IN [ret |-> TRUE, out |-> b.out, st |-> b.st]

\* A faulty beginGame without the minimum player check.
beginGame_NoMinimum(st, sock, spin) ==
  LET userId == st.sockUser[sock]
      g == getPlayerGame(st, userId)
  IN IF g = 0
     THEN Reject(st, sock, "BEGIN", "not in a game")
     ELSE IF st.games[g].creatorId # userId
     THEN Reject(st, sock, "BEGIN", "not creator")
     ELSE LET b == gameBeginGame(st, g, spin)
          IN [ret |-> TRUE, out |-> b.out, st |-> b.st]

\* GameManager.beginGame
beginGame(st, sock, spin) ==
  LET userId == st.sockUser[sock]
      g == getPlayerGame(st, userId)
  IN IF g = 0
     THEN Reject(st, sock, "BEGIN", "not in a game")
     ELSE IF st.games[g].creatorId # userId
     THEN Reject(st, sock, "BEGIN", "not creator")
     ELSE IF Cardinality(st.games[g].players) < gameConfig(st.games[g].gameId).minPlayers
     THEN Reject(st, sock, "BEGIN", "too small")
     ELSE LET b == gameBeginGame(st, g, spin)
          IN [ret |-> TRUE, out |-> b.out, st |-> b.st]

\* A faulty createGame without the game type check: an unknown id gets a room
\* with the default configuration.
createGame_NoTypeCheck(st, gameId, sock, joinCode) ==
  LET userId == st.sockUser[sock]
      g == Len(st.games) + 1
  IN IF playerInGame(st, userId)
     THEN Reject(st, sock, "JOIN", "already in game")
     ELSE LET st1 == [st EXCEPT !.games = Append(@, NewGame(joinCode, userId, gameId)),
                                !.activeGames[joinCode] = g]
              j == joinGame(st1, joinCode, sock, TRUE)
          IN [ret |-> TRUE,
              out |-> j.out,
              st |-> [j.st EXCEPT !.timers = Append(@, JoinTimer(g))]]

\* GameManager.createGame; joinCode is the result of generateCode().
createGame(st, gameId, sock, joinCode) ==
  LET userId == st.sockUser[sock]
      g == Len(st.games) + 1
  IN IF playerInGame(st, userId)
     THEN Reject(st, sock, "JOIN", "already in game")
     ELSE IF gameId \notin {"HILAR", "DUEL", "CHAT"}
     THEN Reject(st, sock, "none", "not a valid game")
     ELSE LET st1 == [st EXCEPT !.games = Append(@, NewGame(joinCode, userId, gameId)),
                                !.activeGames[joinCode] = g]
              j == joinGame(st1, joinCode, sock, TRUE)
          IN [ret |-> TRUE,
              out |-> j.out,
              st |-> [j.st EXCEPT !.timers = Append(@, JoinTimer(g))]]

\* GameManager.endGame
endGame(st, joinCode, cause) ==
  LET g == st.activeGames[joinCode]
  IN IF g = 0 THEN [out |-> <<>>, st |-> st]
     ELSE [out |-> sendAll(st, g, "gameEnd", "The game has ended."),
           st |-> [st EXCEPT !.activeGames[st.games[g].joinCode] = 0,
                             !.games[g].removedBy = cause]]

\* A faulty join timeout without the hasBegun check.
joinTimeout_NoBegunCheck(st, g) ==
  LET st0 == [st EXCEPT !.timers = Tail(@)]
      e == endGame(st0, st0.games[g].joinCode, "timeout")
  IN [out |-> sendAll(st0, g, "gameError",
                      [module |-> "none", message |-> "timed out"]) \o e.out,
      st |-> e.st]

\* The setTimeout callback of createGame for game g.
joinTimeout(st, g) ==
  LET st0 == [st EXCEPT !.timers = Tail(@)]
  IN IF st0.games[g].hasBegun THEN [out |-> <<>>, st |-> st0]
     ELSE LET e == endGame(st0, st0.games[g].joinCode, "timeout")
          IN [out |-> sendAll(st0, g, "gameError",
                              [module |-> "none", message |-> "timed out"]) \o e.out,
              st |-> e.st]

\* A faulty terminateGame without the creator check.
terminateGame_NoCreatorCheck(st, sock) ==
  LET userId == st.sockUser[sock]
      g == getPlayerGame(st, userId)
  IN IF g = 0
     THEN Reject(st, sock, "TERMINATE", "not in a game")
     ELSE [ret |-> TRUE,
           out |-> sendAll(st, g, "gameEnd", "The host has terminated the game."),
           st |-> [st EXCEPT !.activeGames[st.games[g].joinCode] = 0,
                             !.games[g].removedBy = "terminate"]]

\* GameManager.terminateGame
terminateGame(st, sock) ==
  LET userId == st.sockUser[sock]
      g == getPlayerGame(st, userId)
  IN IF g = 0
     THEN Reject(st, sock, "TERMINATE", "not in a game")
     ELSE IF st.games[g].creatorId # userId
     THEN Reject(st, sock, "TERMINATE", "not creator")
     ELSE [ret |-> TRUE,
           out |-> sendAll(st, g, "gameEnd", "The host has terminated the game."),
           st |-> [st EXCEPT !.activeGames[st.games[g].joinCode] = 0,
                             !.games[g].removedBy = "terminate"]]

\* A faulty leaveGame without the canLeaveAfterBegin check.
leaveGame_NoLeaveCheck(st, sock) ==
  LET userId == st.sockUser[sock]
      g == getPlayerGame(st, userId)
  IN IF g = 0
     THEN Reject(st, sock, "LEAVE", "not in a game")
     ELSE LET st1 == removePlayer(st, g, userId)
          IN [ret |-> TRUE,
              out |-> broadcastPlayers(st1, g)
                      \o Emit(sock, "gameLeave", "You have left this game."),
              st |-> st1]

\* GameManager.leaveGame
leaveGame(st, sock) ==
  LET userId == st.sockUser[sock]
      g == getPlayerGame(st, userId)
  IN IF g = 0
     THEN Reject(st, sock, "LEAVE", "not in a game")
     ELSE IF ~Truthy(gameConfig(st.games[g].gameId).canLeaveAfterBegin)
     THEN Reject(st, sock, "LEAVE", "leaving not allowed")
     ELSE LET st1 == removePlayer(st, g, userId)
          IN [ret |-> TRUE,
              out |-> broadcastPlayers(st1, g)
                      \o Emit(sock, "gameLeave", "You have left this game."),
              st |-> st1]

(***************************************************************************)
(* SocketServer.                                                           *)
(***************************************************************************)
\* SocketServer.handleNewConnection for a token that authenticates userId.
handleNewConnection(st, userId) ==
  LET sock == Len(st.sockUser) + 1
      st1 == [st EXCEPT !.sockUser = Append(@, userId),
                        !.listeners = Append(@, <<>>),
                        !.clients[userId] = sock]
      r == attemptRejoin(st1, sock)
  IN [ret |-> TRUE,
      out |-> Emit(sock, "connEstablishRes", TRUE) \o r.out,
      st |-> r.st]

(***************************************************************************)
(* Hilar: the rest of the round loop.  nResp is the number of responses    *)
(* collected for the question the loop looks at, winner the side the votes *)
(* favour; both depend on the events the players sent.                     *)
(***************************************************************************)
\* One iteration of the question loop of Hilar.playRound, up to its await;
\* past the last question, the leaderboard.
hilarQuestion(st, l, q, nResp) ==
  LET g == st.loops[l].g
  IN IF q >= st.games[g].nQuestions
     THEN [out |-> sendAll(st, g, "hilarLeaderboard", "standings"),
           st |-> [st EXCEPT !.games[g].currentRoundStage = "LEADERBOARD",
                             !.loops[l].q = q,
                             !.loops[l].pc = "leaderboard"]]
     ELSE IF nResp = 0
     THEN [out |-> sendAll(st, g, "hilarNoResponses", "none"),
           st |-> [st EXCEPT !.loops[l].q = q, !.loops[l].pc = "result"]]
     ELSE IF nResp = 1
     THEN [out |-> sendAll(st, g, "hilarOneResponse", "prompt"),
           st |-> [st EXCEPT !.loops[l].q = q, !.loops[l].pc = "result"]]
     ELSE [out |-> sendAll(st, g, "hilarVoteQuestion", "options"),
           st |-> [st EXCEPT !.games[g].currentRoundStage = "VOTE",
                             !.loops[l].q = q,
                             !.loops[l].pc = "vote"]]

\* Hilar.playRound resumed after the RESPOND wait.
hilarRespondOver(st, l, nResp) ==
  LET g == st.loops[l].g
  IN hilarQuestion([st EXCEPT !.games[g].currentRoundStage = "LOAD"], l, 0, nResp)

\* Hilar.playRound resumed after the VOTE wait.
hilarVoteOver(st, l, winner) ==
  LET g == st.loops[l].g
  IN [out |-> sendAll(st, g, "hilarVoteResult", winner),
      st |-> [st EXCEPT !.games[g].currentRoundStage = "RESULTS",
                        !.loops[l].pc = "result"]]

\* Hilar.playRound resumed after a RESULT_DISPLAY_TIME wait.
hilarResultOver(st, l, nResp) ==
  hilarQuestion(st, l, st.loops[l].q + 1, nResp)

\* Hilar.playRound resumed after the LEADERBOARD_TIME wait: it returns to
\* the for loop of onBegin.
hilarLeaderboardOver(st, l, spin) ==
  IF st.loops[l].i + 1 < N_ROUNDS
  THEN hilarPlayRound([st EXCEPT !.loops[l].i = @ + 1], l, spin)
  ELSE [out |-> <<>>,
        st |-> [st EXCEPT !.loops[l].i = @ + 1, !.loops[l].pc = "done"]]

(***************************************************************************)
(* Duel: the rest of the round loop.                                       *)
(***************************************************************************)
\* The pass flag of the TimerState object a wait polls: the game's current
\* object, or one that playRound has replaced since.
PassOf(game, field, id) ==
  IF game[field].id = id THEN game[field].pass ELSE <<field, id>> \in game.stale

RECURSIVE sendStateUpdates(_, _, _)
sendStateUpdates(st, g, ps) ==
  IF ps = {} THEN <<>>
  ELSE LET p == CHOOSE x \in ps : \A y \in ps : x <= y
       IN sendAll(st, g, "duelPlayerState", p) \o sendStateUpdates(st, g, ps \ {p})

\* Duel.playRound resumed by the ready-up wait: initializeDuel and BATTLE.
duelMenuOver(st, l) ==
  LET g == st.loops[l].g
      st1 == [st EXCEPT !.games[g].dead = {},
                        !.games[g].currentRoundStage = "BATTLE",
                        !.loops[l].pc = "battle",
                        !.loops[l].sig = st.games[g].roundOver.id]
  IN [out |-> sendAll(st1, g, "duelBegin", "walls")
                \o sendStateUpdates(st1, g, st1.games[g].players),
      st |-> st1]

\* Duel.playRound resumed by the roundOver wait.
duelBattleOver(st, l) ==
  LET g == st.loops[l].g
  IN [out |-> sendAll(st, g, "duelResult", st.games[g].winner),
      st |-> [st EXCEPT !.games[g].currentRoundStage = "RESULTS",
                        !.loops[l].pc = "results"]]

\* Duel.playRound resumed after RESULTS_DELAY: it returns and onBegin calls
\* it again.
duelResultsOver(st, l) == duelPlayRound(st, l)

\* A faulty ready-up timeout that stops the poll without calling this.end().
readyTimeout_NoEnd(st, t) ==
  LET st0 == [st EXCEPT !.timers = Tail(@)]
  IN [out |-> <<>>,
      st |-> IF st0.loops[t.l].pc = "menu" /\ st0.loops[t.l].sig = t.sig
             THEN [st0 EXCEPT !.loops[t.l].pc = "hung"]
             ELSE st0]

\* The setTimeout callback of createWaitUntilTimeout for the ready-up wait
\* of loop l: this.end(), clearInterval, no resolve.
readyTimeout(st, t) ==
  LET st0 == [st EXCEPT !.timers = Tail(@)]
      e == endGame(st0, st0.games[t.g].joinCode, "callback")
  IN [out |-> e.out,
      st |-> IF e.st.loops[t.l].pc = "menu" /\ e.st.loops[t.l].sig = t.sig
             THEN [e.st EXCEPT !.loops[t.l].pc = "hung"]
             ELSE e.st]

(***************************************************************************)
(* Game events.  An event that arrives on a socket runs every listener     *)
(* attached to that socket for the event, in the order of attachment.      *)
(***************************************************************************)
\* User.username of the user with id userId, which joinGame and createGame
\* store as the player's displayName.
displayName(userId) == <<"username", userId>>

\* The content fields a chatMessage payload may carry: strings and a value
\* that is not a string.
ChatContents ==
  {[type |-> "string", value |-> "hi"], [type |-> "string", value |-> ""],
   [type |-> "number", value |-> "7"]}

\* The values Date.now() may return.
Clock == 0..MaxClock

\* A faulty handleMessage that answers the sender alone.
handleMessage_SenderOnly(st, g, sock, payload, now) ==
  IF payload.content.type # "string"
  THEN [out |-> Emit(sock, "gameError", [module |-> "none", message |-> "content"]),
        st |-> st]
  ELSE IF st.sockUser[sock] \notin st.games[g].players
  THEN [out |-> Emit(sock, "gameError", [module |-> "none", message |-> "removed"]),
        st |-> st]
  ELSE [out |-> Emit(sock, "chatNewMessage",
                     [sender |-> displayName(st.sockUser[sock]),
                      content |-> payload.content.value,
                      timestamp |-> now]),
        st |-> [st EXCEPT !.games[g].messages = @ + 1]]

\* Chat.handleMessage; now is the value of Date.now().
handleMessage(st, g, sock, payload, now) ==
  IF payload.content.type # "string"
  THEN [out |-> Emit(sock, "gameError", [module |-> "none", message |-> "content"]),
        st |-> st]
  ELSE IF st.sockUser[sock] \notin st.games[g].players
  THEN [out |-> Emit(sock, "gameError", [module |-> "none", message |-> "removed"]),
        st |-> st]
  ELSE [out |-> sendAll(st, g, "chatNewMessage",
                        [sender |-> displayName(st.sockUser[sock]),
                         content |-> payload.content.value,
                         timestamp |-> now]),
        st |-> [st EXCEPT !.games[g].messages = @ + 1]]

\* Duel.checkReady
checkReady(game) == game.players \subseteq game.ready

\* Duel.handleReadyUp
handleReadyUp(st, g, sock) ==
  IF st.sockUser[sock] \notin st.games[g].players
  THEN [out |-> Emit(sock, "gameError", [module |-> "none", message |-> "removed"]),
        st |-> st]
  ELSE LET st1 == [st EXCEPT !.games[g].ready = @ \cup {st.sockUser[sock]}]
           st2 == [st1 EXCEPT !.games[g].allReady.pass = checkReady(st1.games[g])]
       IN [out |-> sendAll(st2, g, "duelReadyState",
                           [ready |-> st2.games[g].ready,
                            allReady |-> st2.games[g].allReady.pass]),
           st |-> st2]

\* The 'duelReady' listener of Duel.addHandlers
onDuelReady(st, g, sock) ==
  IF st.games[g].currentRoundStage = "MENU"
  THEN handleReadyUp(st, g, sock)
  ELSE [out |-> Emit(sock, "gameError", [module |-> "none", message |-> "not in menu"]),
        st |-> st]

\* Duel.checkWinner: the only player alive, 0 for null.
checkWinner(game) ==
  IF Cardinality(game.players \ game.dead) = 1
  THEN CHOOSE p \in game.players \ game.dead : TRUE
  ELSE 0

\* Duel.handlePlayerShoot for a well-formed shot that is not rate limited.
\* target is the player the ray hits (0: nobody), lethal whether the damage
\* takes the target's health to 0.
handlePlayerShoot(st, g, sock, target, lethal) ==
  IF st.sockUser[sock] \notin st.games[g].players
  THEN [out |-> Emit(sock, "gameError", [module |-> "none", message |-> "removed"]),
        st |-> st]
  ELSE LET hit == target \in st.games[g].players
           st1 == IF hit /\ lethal
                  THEN [st EXCEPT !.games[g].dead = @ \cup {target}]
                  ELSE st
           w == checkWinner(st1.games[g])
       IN [out |-> (IF hit THEN sendAll(st1, g, "duelPlayerState", target) ELSE <<>>)
                   \o sendAll(st1, g, "duelShot", target),
           st |-> IF w # 0
                  THEN [st1 EXCEPT !.games[g].winner = w,
                                   !.games[g].roundOver.pass = TRUE]
                  ELSE st1]

\* The 'duelShoot' listener of Duel.addHandlers
onDuelShoot(st, g, sock, target, lethal) ==
  IF st.games[g].currentRoundStage = "BATTLE"
  THEN handlePlayerShoot(st, g, sock, target, lethal)
  ELSE [out |-> Emit(sock, "gameError", [module |-> "none", message |-> "not active"]),
        st |-> st]

\* One listener of event ev of game g on socket sock.
listener(st, g, sock, ev, a, b) ==
  CASE ev = "chatMessage" /\ st.games[g].gameId = "CHAT" -> handleMessage(st, g, sock, a, b)
    [] ev = "duelReady" /\ st.games[g].gameId = "DUEL" -> onDuelReady(st, g, sock)
    [] ev = "duelShoot" /\ st.games[g].gameId = "DUEL" -> onDuelShoot(st, g, sock, a, b)
    [] OTHER -> [out |-> <<>>, st |-> st]

\* socket.io dispatch: the listeners k, k+1, ... of the socket.
RECURSIVE dispatch(_, _, _, _, _, _)
dispatch(st, sock, k, ev, a, b) ==
  IF k > Len(st.listeners[sock]) THEN [out |-> <<>>, st |-> st]
  ELSE LET r == listener(st, st.listeners[sock][k], sock, ev, a, b)
           rest == dispatch(r.st, sock, k + 1, ev, a, b)
       IN [out |-> r.out \o rest.out, st |-> rest.st]

receive(st, sock, ev, a, b) == dispatch(st, sock, 1, ev, a, b)

(***************************************************************************)
(* The state machine.                                                      *)
(***************************************************************************)
LoopsOf(st, g) == {l \in DOMAIN st.loops : st.loops[l].g = g}

\* The part of the state space the model explores.
WithinBounds(st) ==
  /\ Len(st.sockUser) <= MaxSockets
  /\ \A s \in DOMAIN st.listeners : Len(st.listeners[s]) <= MaxListeners
  /\ \A g \in DOMAIN st.games :
       /\ Cardinality(LoopsOf(st, g)) <= MaxLoops
       /\ st.games[g].gameId = "DUEL" => st.games[g].currentRound <= MaxDuelRounds
       /\ st.games[g].messages <= MaxMessages

\* A Game object that nothing refers to any more (no activeGames entry, no
\* pending timer, no round loop, no listener closure) is garbage.
Referenced(st, g) ==
  \/ g \in LiveGames(st)
  \/ \E k \in DOMAIN st.timers : st.timers[k].g = g
  \/ \E l \in DOMAIN st.loops : st.loops[l].g = g
  \/ \E s \in DOMAIN st.listeners :
       \E k \in DOMAIN st.listeners[s] : st.listeners[s][k] = g

\* What is kept of a garbage Game object: the history of its join code and of
\* its removal.  creatorId 0 marks it.
Collected(game) ==
  [NewGame(game.joinCode, 0, "CHAT") EXCEPT !.removedBy = game.removedBy]

IsCollected(game) == game.creatorId = 0

Collect(st) ==
  [st EXCEPT !.games = [g \in DOMAIN st.games |->
                          IF Referenced(st, g) THEN st.games[g]
                          ELSE Collected(st.games[g])]]

\* createGame cannot construct a Holdem: where a Holdem table is followed
\* (holdem is not Idle), it is followed without the registry.
Step(r) == holdem = Idle /\ WithinBounds(r.st) /\ Install(Collect(r.st))

\* The SocketServer and its GameManager right after construction.
InitServer ==
  /\ games = <<>>
  /\ activeGames = [c \in Codes |-> 0]
  /\ alreadyGeneratedCodes = {}
  /\ clients = [u \in Users |-> 0]
  /\ sockUser = <<>>
  /\ listeners = <<>>
  /\ timers = <<>>
  /\ loops = <<>>
  /\ blocked = FALSE

Init ==
  /\ InitServer
  /\ promise = Idle
  /\ hilar = Idle
  /\ battle = Idle
  /\ holdem = Idle

\* A client connects with a valid token of user u.  User ids are
\* interchangeable, so the users make their first connection in the order of
\* their ids.
Connect(u) ==
  /\ ~blocked
  /\ u <= Cardinality(Range(sockUser)) + 1
  /\ Step(handleNewConnection(St, u))

\* Join codes are interchangeable, so the first room gets code 1.  maxGames
\* bounds the number of Game objects of a behaviour.
CreateGame(s, gameId, maxGames) ==
  /\ ~blocked
  /\ \E joinCode \in generateCode :
       /\ joinCode <= Len(games) + 1
       /\ LET r == createGame(St, gameId, s, joinCode)
          IN Len(r.st.games) <= maxGames /\ Step(r)

JoinGame(s, joinCode) == ~blocked /\ Step(joinGame(St, joinCode, s, FALSE))

BeginGame(s) == ~blocked /\ \E spin \in BOOLEAN : Step(beginGame(St, s, spin))

TerminateGame(s) == ~blocked /\ Step(terminateGame(St, s))

LeaveGame(s) == ~blocked /\ Step(leaveGame(St, s))

\* The oldest pending 10 minute timer fires.
JoinTimeout ==
  /\ ~blocked
  /\ timers # <<>>
  /\ Head(timers).kind = "join"
  /\ Step(joinTimeout(St, Head(timers).g))

ReadyTimeout ==
  /\ ~blocked
  /\ timers # <<>>
  /\ Head(timers).kind = "ready"
  /\ Step(readyTimeout(St, Head(timers)))

HilarRespondOver(l) ==
  /\ ~blocked
  /\ loops[l].pc = "respond"
  /\ \E nResp \in 0..2 : Step(hilarRespondOver(St, l, nResp))

HilarVoteOver(l) ==
  /\ ~blocked
  /\ loops[l].pc = "vote"
  /\ \E winner \in 0..2 : Step(hilarVoteOver(St, l, winner))

HilarResultOver(l) ==
  /\ ~blocked
  /\ loops[l].pc = "result"
  /\ \E nResp \in 0..2 : Step(hilarResultOver(St, l, nResp))

HilarLeaderboardOver(l) ==
  /\ ~blocked
  /\ loops[l].pc = "leaderboard"
  /\ \E spin \in BOOLEAN : Step(hilarLeaderboardOver(St, l, spin))

\* The polling interval of the ready-up wait finds pass set.
DuelMenuOver(l) ==
  /\ ~blocked
  /\ loops[l].pc = "menu"
  /\ PassOf(games[loops[l].g], "allReady", loops[l].sig)
  /\ Step(duelMenuOver(St, l))

\* The polling interval of the roundOver wait finds pass set.
DuelBattleOver(l) ==
  /\ ~blocked
  /\ loops[l].pc = "battle"
  /\ PassOf(games[loops[l].g], "roundOver", loops[l].sig)
  /\ Step(duelBattleOver(St, l))

DuelResultsOver(l) ==
  /\ ~blocked
  /\ loops[l].pc = "results"
  /\ Step(duelResultsOver(St, l))

ChatMessage(s) ==
  /\ ~blocked
  /\ \E content \in ChatContents, now \in Clock :
       Step(receive(St, s, "chatMessage", [content |-> content], now))

DuelReady(s) == ~blocked /\ Step(receive(St, s, "duelReady", FALSE, FALSE))

DuelShoot(s) ==
  /\ ~blocked
  /\ \E target \in {0} \cup Users, lethal \in BOOLEAN :
       Step(receive(St, s, "duelShoot", target, lethal))

\* Connections, the GameManager commands on existing rooms and the 10 minute
\* timers.
Manage ==
  \/ \E u \in Users : Connect(u)
  \/ \E s \in DOMAIN sockUser, joinCode \in Codes : JoinGame(s, joinCode)
  \/ \E s \in DOMAIN sockUser : BeginGame(s)
  \/ \E s \in DOMAIN sockUser : TerminateGame(s)
  \/ \E s \in DOMAIN sockUser : LeaveGame(s)
  \/ JoinTimeout
  \/ ReadyTimeout

\* Round loop l resumes from the await it is suspended at: the loop steps of
\* Play, as one action.
Resume(l) ==
  \/ HilarRespondOver(l)
  \/ HilarVoteOver(l)
  \/ HilarResultOver(l)
  \/ HilarLeaderboardOver(l)
  \/ DuelMenuOver(l)
  \/ DuelBattleOver(l)
  \/ DuelResultsOver(l)

\* The round loops resuming from their awaits, and the game events.
Play ==
  \/ \E l \in DOMAIN loops : HilarRespondOver(l)
  \/ \E l \in DOMAIN loops : HilarVoteOver(l)
  \/ \E l \in DOMAIN loops : HilarResultOver(l)
  \/ \E l \in DOMAIN loops : HilarLeaderboardOver(l)
  \/ \E l \in DOMAIN loops : DuelMenuOver(l)
  \/ \E l \in DOMAIN loops : DuelBattleOver(l)
  \/ \E l \in DOMAIN loops : DuelResultsOver(l)
  \/ \E s \in DOMAIN sockUser : ChatMessage(s)
  \/ \E s \in DOMAIN sockUser : DuelReady(s)
  \/ \E s \in DOMAIN sockUser : DuelShoot(s)

\* The lobby: up to MaxGames rooms, their round loops staying at the first
\* await.
Next ==
  \/ \E s \in DOMAIN sockUser, gameId \in RequestedGameIds :
       CreateGame(s, gameId, MaxGames)
  \/ Manage

\* Up to PlayGames rooms with their round loops and game events.
NextPlay ==
  \/ \E s \in DOMAIN sockUser, gameId \in RequestedGameIds :
       CreateGame(s, gameId, PlayGames)
  \/ Manage
  \/ Play

Spec == Init /\ [][Next]_vars

SpecPlay == Init /\ [][NextPlay]_vars

\* The event loop runs every expired timer and resumes every round loop whose
\* wait is over; what the clients send is up to them.
FairSpecPlay ==
  /\ SpecPlay
  /\ WF_vars(JoinTimeout)
  /\ WF_vars(ReadyTimeout)
  /\ WF_vars(\E l \in DOMAIN loops : Resume(l))

TypeOK ==
  /\ \A c \in Codes : activeGames[c] \in 0..Len(games)
  /\ \A u \in Users : clients[u] \in 0..Len(sockUser)

(***************************************************************************)
(* Hilar in detail: one Hilar object whose room has begun.  A Hilar room   *)
(* can be neither joined nor left once it has begun, so the roster is      *)
(* 1..nPlayers for good; every player has one connection that carries the  *)
(* handlers once.  The fields are those of the class and of its players:   *)
(*   i   the index of the round loop of onBegin, q the index of the        *)
(*       question loop of playRound, pc the await playRound is at          *)
(*   questionIndices, responses (its length), canVote, score: per player   *)
(*   currentQuestionResponses[k]: the user ids of the responses to prompt  *)
(*       k, in the order of arrival                                        *)
(*   pass: currentTimerState.pass                                          *)
(*   cast: history, per player the votes of that player that handleVote    *)
(*       has counted since the current vote window opened                  *)
(*   nVotes: history, the number of votes handleVote has counted so far    *)
(***************************************************************************)
NewHilar(n) ==
  [nPlayers |-> n,
   pc |-> "created",
   i |-> 0,
   q |-> 0,
   currentRound |-> 0,
   currentRoundStage |-> "LOAD",
   nQuestions |-> 0,
   currentQuestionResponses |-> <<>>,
   currentResponsesCount |-> 0,
   currentQuestionVotes |-> 0,
   pass |-> FALSE,
   questionIndices |-> [p \in 1..n |-> <<>>],
   responses |-> [p \in 1..n |-> 0],
   canVote |-> [p \in 1..n |-> FALSE],
   score |-> [p \in 1..n |-> 0],
   cast |-> [p \in 1..n |-> <<>>],
   nVotes |-> 0]

HilarPlayers(h) == 1..h.nPlayers

\* Array.splice(i, 1) on a sequence, i counted from 1.
RemoveAt(seq, i) == SubSeq(seq, 1, i - 1) \o SubSeq(seq, i + 1, Len(seq))

\* The pool of assignQuestions: every prompt index 0..n-1 twice.
QuestionPool(n) == [k \in 1..(2 * n) |-> (k - 1) \div 2]

\* A faulty assignQuestions that takes any second pick from the pool.
RECURSIVE assignRest_AnySecond(_, _, _, _)
assignRest_AnySecond(pool, k, n, acc) ==
  IF k > n THEN {[spin |-> FALSE, idx |-> acc]}
  ELSE UNION {
    LET q1 == pool[a]
        pool1 == RemoveAt(pool, a)
    IN UNION {assignRest_AnySecond(RemoveAt(pool1, b), k + 1, n,
                                   Append(acc, <<q1, pool1[b]>>)) : b \in 1..Len(pool1)}
    : a \in 1..Len(pool)}

\* The loop over the players of Hilar.assignQuestions from player k on: the
\* set of its outcomes over all random choices.  spin is the outcome in which
\* every entry left in the pool equals q1, so that the do-while loop never
\* ends.
RECURSIVE assignRest(_, _, _, _)
assignRest(pool, k, n, acc) ==
  IF k > n THEN {[spin |-> FALSE, idx |-> acc]}
  ELSE UNION {
    LET q1 == pool[a]
        pool1 == RemoveAt(pool, a)
        differing == {b \in 1..Len(pool1) : pool1[b] # q1}
    IN IF differing = {} THEN {[spin |-> TRUE, idx |-> <<>>]}
       ELSE UNION {assignRest(RemoveAt(pool1, b), k + 1, n,
                              Append(acc, <<q1, pool1[b]>>)) : b \in differing}
    : a \in 1..Len(pool)}

\* Hilar.assignQuestions for n players and n prompts: its possible outcomes.
assignQuestions(n) == assignRest(QuestionPool(n), 1, n, <<>>)

\* Hilar.populateQuestions
populateQuestions(h) ==
  [h EXCEPT !.nQuestions = h.nPlayers,
            !.currentQuestionResponses = [k \in 0..(h.nPlayers - 1) |-> <<>>]]

\* Hilar.playRound up to its first await; a is the outcome of assignQuestions.
playRound(h, a) ==
  LET h1 == populateQuestions([h EXCEPT !.currentRound = @ + 1,
                                        !.currentRoundStage = "LOAD"])
  IN IF a.spin
     THEN [out |-> <<[to |-> {1}, ev |-> "hilarTEST"]>>,
           h |-> [h1 EXCEPT !.pc = "spin"]]
     ELSE [out |-> <<[to |-> {1}, ev |-> "hilarTEST"]>>
                   \o [p \in 1..h.nPlayers |-> [to |-> {p}, ev |-> "hilarQuestions"]],
           h |-> [h1 EXCEPT !.questionIndices = [p \in HilarPlayers(h) |-> a.idx[p]],
                            !.responses = [p \in HilarPlayers(h) |-> 0],
                            !.currentRoundStage = "RESPOND",
                            !.pc = "respond"]]

\* One iteration of the question loop of playRound up to its await, and the
\* leaderboard after the last question.
question(h) ==
  IF h.q >= h.nQuestions
  THEN [out |-> <<[to |-> HilarPlayers(h), ev |-> "hilarLeaderboard"]>>,
        h |-> [h EXCEPT !.currentRoundStage = "LEADERBOARD", !.pc = "leaderboard"]]
  ELSE LET qResp == h.currentQuestionResponses[h.q]
       IN IF Len(qResp) = 0
          THEN [out |-> <<[to |-> HilarPlayers(h), ev |-> "hilarNoResponses"]>>,
                h |-> [h EXCEPT !.pc = "result"]]
          ELSE IF Len(qResp) = 1
          THEN [out |-> <<[to |-> HilarPlayers(h), ev |-> "hilarOneResponse"]>>,
                h |-> [h EXCEPT !.pc = "result"]]
          ELSE [out |-> [p \in 1..h.nPlayers |-> [to |-> {p}, ev |-> "hilarVoteQuestion"]],
                h |-> [h EXCEPT !.canVote = [p \in HilarPlayers(h) |->
                                               IF p # qResp[1] /\ p # qResp[2]
                                               THEN TRUE ELSE h.canVote[p]],
                                !.cast = [p \in HilarPlayers(h) |-> <<>>],
                                !.currentRoundStage = "VOTE",
                                !.pc = "vote"]]

\* createPassableWait(currentTimerState, delay, true) resolves: passed when
\* the 100 ms poll saw pass set (and reset it), otherwise by its timeout.
passableWaitOver(h, passed) == [h EXCEPT !.pass = IF passed THEN FALSE ELSE @]

\* playRound from the end of the RESPOND wait to the next await.
respondWaitOver(h, passed) ==
  question([passableWaitOver(h, passed) EXCEPT !.currentRoundStage = "LOAD", !.q = 0])

\* Math.round(x / 2) for x >= 0.
RoundHalf(x) == (x + 1) \div 2

\* playRound from the end of the VOTE wait to the next await.
voteWaitOver(h, passed) ==
  LET qResp == h.currentQuestionResponses[h.q]
      p1 == qResp[1]
      p2 == qResp[2]
      full == POINTS_PER_RESPONSE + ROUND_BONUS_POINTS * h.currentRound
      winner == IF h.currentQuestionVotes < 0 THEN 1
                ELSE IF h.currentQuestionVotes > 0 THEN 2 ELSE 0
      scoreChange == IF winner = 0 THEN RoundHalf(full) ELSE full
      score == [p \in HilarPlayers(h) |->
                  IF (p = p1 /\ winner # 2) \/ (p = p2 /\ winner # 1)
                  THEN h.score[p] + scoreChange ELSE h.score[p]]
  IN [out |-> <<[to |-> HilarPlayers(h), ev |-> "hilarVoteResult",
                 arg |-> [winner |-> winner, newScore1 |-> score[p1],
                          newScore2 |-> score[p2], scoreChange |-> scoreChange]]>>,
      h |-> [passableWaitOver(h, passed) EXCEPT !.score = score,
                                                !.currentRoundStage = "RESULTS",
                                                !.pc = "result"]]

\* playRound from the end of a RESULT_DISPLAY_TIME wait to the next await.
resultWaitOver(h) == question([h EXCEPT !.q = @ + 1])

\* The end of the LEADERBOARD_TIME wait: playRound returns and onBegin goes
\* on with the next round, if any.
leaderboardWaitOver(h, a) ==
  IF h.i + 1 < N_ROUNDS
  THEN playRound([h EXCEPT !.i = @ + 1], a)
  ELSE [out |-> <<>>, h |-> [h EXCEPT !.i = @ + 1, !.pc = "done"]]

HilarError(h, p) == [out |-> <<[to |-> {p}, ev |-> "gameError"]>>, h |-> h]

\* Hilar.handleQuestionResponse; valid: the text is a string of a permitted
\* length.
handleQuestionResponse(h, p, valid) ==
  IF ~valid THEN HilarError(h, p)
  ELSE LET h1 == [h EXCEPT !.responses[p] = @ + 1]
           k == h1.responses[p]
       IN IF k > 2
          THEN HilarError(h1, p)
          ELSE LET h2 == [h1 EXCEPT
                            !.currentQuestionResponses[h.questionIndices[p][k]] =
                               Append(@, p),
                            !.currentResponsesCount = @ + 1]
               IN [out |-> <<>>,
                   h |-> IF h2.currentResponsesCount >= h.nPlayers * 2
                         THEN [h2 EXCEPT !.pass = TRUE] ELSE h2]

\* Hilar.handleVote; vote 0 stands for every payload that is not -1 or 1.
handleVote(h, p, vote) ==
  IF vote \notin {-1, 1} THEN HilarError(h, p)
  ELSE IF ~h.canVote[p] THEN HilarError(h, p)
  ELSE [out |-> <<>>,
        h |-> [h EXCEPT !.canVote[p] = FALSE,
                        !.currentQuestionVotes = @ + vote,
                        !.cast[p] = Append(@, vote),
                        !.nVotes = @ + 1]]

\* The 'hilarQuestionResponse' listener of Hilar.addHandlers.
onQuestionResponse(h, p, valid) ==
  IF h.currentRoundStage = "RESPOND" THEN handleQuestionResponse(h, p, valid)
  ELSE HilarError(h, p)

\* The 'hilarVote' listener of Hilar.addHandlers.
onVote(h, p, vote) ==
  IF h.currentRoundStage = "VOTE" THEN handleVote(h, p, vote)
  ELSE HilarError(h, p)

\* The responses of the current round that handleQuestionResponse accepted.
RECURSIVE AcceptedUpTo(_, _)
AcceptedUpTo(h, p) ==
  IF p = 0 THEN 0
  ELSE AcceptedUpTo(h, p - 1) + (IF h.responses[p] > 2 THEN 2 ELSE h.responses[p])

AcceptedResponses(h) == AcceptedUpTo(h, h.nPlayers)

RECURSIVE SumSeq(_)
SumSeq(seq) == IF seq = <<>> THEN 0 ELSE seq[1] + SumSeq(Tail(seq))

\* The sum of the votes counted since the current vote window opened.
RECURSIVE WindowUpTo(_, _)
WindowUpTo(h, p) ==
  IF p = 0 THEN 0 ELSE WindowUpTo(h, p - 1) + SumSeq(h.cast[p])

WindowTally(h) == WindowUpTo(h, h.nPlayers)

\* The part of the state space the Hilar specification explores:
\* MaxPrompts bounds the prompts handed out (nPlayers per round), MaxResponses
\* the responses a player sends in a round, MaxVotes the votes counted.
HilarStep(r) ==
  /\ r.h.currentRound * r.h.nPlayers <= MaxPrompts
  /\ r.h.nVotes <= MaxVotes
  /\ \A p \in HilarPlayers(r.h) : r.h.responses[p] <= MaxResponses
  /\ hilar' = r.h
  /\ UNCHANGED <<games, activeGames, alreadyGeneratedCodes, clients, sockUser,
                 listeners, timers, loops, blocked, battle, holdem, promise>>

\* beginGame has just run on a Hilar room of 2..MaxHilarPlayers players;
\* onBegin has not started yet.
InitHilar ==
  /\ InitServer
  /\ promise = Idle
  /\ hilar \in {NewHilar(n) : n \in 2..MaxHilarPlayers}
  /\ battle = Idle
  /\ holdem = Idle

HilarOnBegin ==
  /\ hilar.pc = "created"
  /\ \E a \in assignQuestions(hilar.nPlayers) : HilarStep(playRound(hilar, a))

HilarRespondPassed ==
  hilar.pc = "respond" /\ hilar.pass /\ HilarStep(respondWaitOver(hilar, TRUE))

HilarRespondTimedOut ==
  hilar.pc = "respond" /\ HilarStep(respondWaitOver(hilar, FALSE))

HilarVotePassed ==
  hilar.pc = "vote" /\ hilar.pass /\ HilarStep(voteWaitOver(hilar, TRUE))

HilarVoteTimedOut ==
  hilar.pc = "vote" /\ HilarStep(voteWaitOver(hilar, FALSE))

HilarResultWaitOver ==
  hilar.pc = "result" /\ HilarStep(resultWaitOver(hilar))

HilarLeaderboardWaitOver ==
  /\ hilar.pc = "leaderboard"
  /\ \E a \in assignQuestions(hilar.nPlayers) : HilarStep(leaderboardWaitOver(hilar, a))

HilarQuestionResponse(p) ==
  /\ hilar.pc \notin {"created", "spin"}
  /\ \E valid \in BOOLEAN : HilarStep(onQuestionResponse(hilar, p, valid))

HilarVote(p) ==
  /\ hilar.pc \notin {"created", "spin"}
  /\ \E vote \in {-1, 0, 1} : HilarStep(onVote(hilar, p, vote))

NextHilar ==
  \/ HilarOnBegin
  \/ HilarRespondPassed
  \/ HilarRespondTimedOut
  \/ HilarVotePassed
  \/ HilarVoteTimedOut
  \/ HilarResultWaitOver
  \/ HilarLeaderboardWaitOver
  \/ \E p \in HilarPlayers(hilar) : HilarQuestionResponse(p)
  \/ \E p \in HilarPlayers(hilar) : HilarVote(p)

SpecHilar == InitHilar /\ [][NextHilar]_vars

(***************************************************************************)
(* Duel in detail: one Duel object whose room has begun, with its two      *)
(* players 1 and 2 (minPlayers = maxPlayers = 2, and a Duel room cannot be *)
(* left), each with one connection that carries the handlers once, and one *)
(* round loop.  The fields are those of the class and of its players:      *)
(*   pc  the await playRound is at ("hung": the ready-up wait that its     *)
(*       timeout has left pending for ever)                                *)
(*   ready, health: per player                                             *)
(*   aimAngle: per player, one of Angles                                   *)
(*   recentMove, recentShot: per player, whether lastMove (lastShot) is    *)
(*       less than MOVE_DELAY (SHOT_DELAY) before Date.now()               *)
(*   allReady, roundOver: the pass flag of the TimerState the round uses   *)
(*   winner: 0 for ''                                                      *)
(* The positions and the shot statistics of the players are left out: what *)
(* a shot hits is an input of the shot.                                    *)
(***************************************************************************)
DuelPlayers == {1, 2}

MaxAngle == 1

\* The directions a client aims in.
Angles == 0..MaxAngle

NewDuel ==
  [pc |-> "created",
   currentRound |-> 0,
   currentRoundStage |-> "MENU",
   ready |-> [p \in DuelPlayers |-> FALSE],
   health |-> [p \in DuelPlayers |-> STARTING_HEALTH],
   aimAngle |-> [p \in DuelPlayers |-> 0],
   recentMove |-> [p \in DuelPlayers |-> FALSE],
   recentShot |-> [p \in DuelPlayers |-> FALSE],
   allReady |-> FALSE,
   roundOver |-> FALSE,
   winner |-> 0]

DuelEmit(to, ev, arg) == <<[to |-> to, ev |-> ev, arg |-> arg]>>

DuelError(b, p) == [out |-> DuelEmit({p}, "gameError", 0), b |-> b]

\* Duel.updateAllStates: one duelPlayerState per player, to everybody.
updateAllStates(b) ==
  [p \in 1..2 |-> [to |-> DuelPlayers, ev |-> "duelPlayerState",
                   arg |-> [userId |-> p, health |-> b.health[p],
                            aimAngle |-> b.aimAngle[p]]]]

\* Duel.sendStateUpdate
sendStateUpdate(b, p) ==
  DuelEmit(DuelPlayers, "duelPlayerState",
           [userId |-> p, health |-> b.health[p], aimAngle |-> b.aimAngle[p]])

\* Duel.playRound up to the ready-up wait.
playRoundToMenu(b) ==
  LET b1 == [b EXCEPT !.currentRound = @ + 1,
                      !.currentRoundStage = "MENU",
                      !.allReady = FALSE,
                      !.roundOver = FALSE,
                      !.ready = [p \in DuelPlayers |-> FALSE],
                      !.pc = "menu"]
  IN [out |-> DuelEmit(DuelPlayers, "duelMenu", 0)
              \o DuelEmit(DuelPlayers, "duelReadyState", b1.ready),
      b |-> b1]

\* Duel.initializeDuel: both maps for two players have a spawn position for
\* each of them.
initializeDuel(b) == [b EXCEPT !.health = [p \in DuelPlayers |-> STARTING_HEALTH]]

\* Duel.playRound from the end of the ready-up wait to the roundOver wait.
playRoundToBattle(b) ==
  LET b1 == [initializeDuel(b) EXCEPT !.currentRoundStage = "BATTLE", !.pc = "battle"]
  IN [out |-> DuelEmit(DuelPlayers, "duelBegin", 0) \o updateAllStates(b1),
      b |-> b1]

\* Duel.playRound from the end of the roundOver wait to the RESULTS_DELAY wait.
playRoundToResults(b) ==
  [out |-> DuelEmit(DuelPlayers, "duelResult", b.winner),
   b |-> [b EXCEPT !.currentRoundStage = "RESULTS", !.pc = "results"]]

\* The 'duelReady' listener and Duel.handleReadyUp.
onReady(b, p) ==
  IF b.currentRoundStage # "MENU" THEN DuelError(b, p)
  ELSE LET b1 == [b EXCEPT !.ready[p] = TRUE]
           b2 == [b1 EXCEPT !.allReady = \A x \in DuelPlayers : b1.ready[x]]
       IN [out |-> DuelEmit(DuelPlayers, "duelReadyState", b2.ready), b |-> b2]

\* Math.max(0, health - SHOT_DAMAGE)
Damaged(health) == IF health - SHOT_DAMAGE < 0 THEN 0 ELSE health - SHOT_DAMAGE

\* The players whose health is above 0.
Alive(b) == {p \in DuelPlayers : b.health[p] > 0}

\* A faulty checkWinner that names a winner while both players are alive.
winnerOf_AnyAlive(b) ==
  IF Alive(b) # {} THEN CHOOSE p \in Alive(b) : \A x \in Alive(b) : p <= x ELSE 0

\* Duel.checkWinner on the detailed state: the only player alive, 0 for null.
winnerOf(b) ==
  IF Cardinality(Alive(b)) = 1 THEN CHOOSE p \in Alive(b) : TRUE ELSE 0

\* Duel.handlePlayerShoot.  valid: the direction is a number; target: the
\* player whose body the ray meets first, 0 when it meets a wall or nothing.
shoot(b, p, valid, target) ==
  IF b.recentShot[p] THEN [out |-> <<>>, b |-> b]
  ELSE LET b0 == [b EXCEPT !.recentShot[p] = TRUE]
       IN IF ~valid THEN DuelError(b0, p)
          ELSE LET hit == target \in DuelPlayers
                   b1 == IF hit THEN [b0 EXCEPT !.health[target] = Damaged(@)] ELSE b0
                   w == winnerOf(b1)
               IN [out |-> (IF hit THEN sendStateUpdate(b1, target) ELSE <<>>)
                           \o DuelEmit(DuelPlayers, "duelShot",
                                       [userId |-> p, hit |-> target]),
                   b |-> IF w # 0
                         THEN [b1 EXCEPT !.winner = w, !.roundOver = TRUE]
                         ELSE b1]

\* A faulty 'duelShoot' listener that does not look at the stage.
onShoot_AnyStage(b, p, valid, target) == shoot(b, p, valid, target)

\* The 'duelShoot' listener of Duel.addHandlers.
onShoot(b, p, valid, target) ==
  IF b.currentRoundStage = "BATTLE" THEN shoot(b, p, valid, target)
  ELSE DuelError(b, p)

\* Duel.handlePlayerMovement.  valid: payload.directions is a non-empty array
\* that starts with a string.
handlePlayerMovement(b, p, valid) ==
  IF b.recentMove[p] THEN [out |-> <<>>, b |-> b]
  ELSE LET b0 == [b EXCEPT !.recentMove[p] = TRUE]
       IN IF ~valid THEN DuelError(b0, p)
          ELSE [out |-> sendStateUpdate(b0, p), b |-> b0]

\* The 'duelMove' listener of Duel.addHandlers.
onMove(b, p, valid) ==
  IF b.currentRoundStage = "BATTLE" THEN handlePlayerMovement(b, p, valid)
  ELSE DuelError(b, p)

\* Duel.handlePlayerAim.  valid: payload.direction is a number.
handlePlayerAim(b, p, valid, direction) ==
  IF ~valid THEN DuelError(b, p)
  ELSE LET b1 == [b EXCEPT !.aimAngle[p] = direction]
       IN [out |-> sendStateUpdate(b1, p), b |-> b1]

\* The 'duelAim' listener of Duel.addHandlers.
onAim(b, p, valid, direction) ==
  IF b.currentRoundStage = "BATTLE" THEN handlePlayerAim(b, p, valid, direction)
  ELSE DuelError(b, p)

\* What the ray of a shot of player p can meet: the other player or none.
Targets(p) == {0} \cup (DuelPlayers \ {p})

DuelStep(r) ==
  /\ r.b.currentRound <= MaxBattleRounds
  /\ battle' = r.b
  /\ UNCHANGED <<games, activeGames, alreadyGeneratedCodes, clients, sockUser,
                 listeners, timers, loops, blocked, hilar, holdem, promise>>

\* beginGame has just run on a Duel room; onBegin has not started yet.
InitDuel ==
  /\ InitServer
  /\ promise = Idle
  /\ hilar = Idle
  /\ battle = NewDuel
  /\ holdem = Idle

BattleOnBegin == battle.pc = "created" /\ DuelStep(playRoundToMenu(battle))

\* createWaitUntilTimeout(allReady, ...): the poll finds pass set.
BattleMenuPassed ==
  battle.pc = "menu" /\ battle.allReady /\ DuelStep(playRoundToBattle(battle))

\* createWaitUntilTimeout: the timeout elapses first; the wait never resolves.
BattleMenuTimedOut ==
  /\ battle.pc = "menu"
  /\ DuelStep([out |-> <<>>, b |-> [battle EXCEPT !.pc = "hung"]])

\* createWaitUntil(roundOver): the poll finds pass set.
BattlePassed ==
  battle.pc = "battle" /\ battle.roundOver /\ DuelStep(playRoundToResults(battle))

\* createWait(RESULTS_DELAY) is over: playRound returns, onBegin calls it again.
BattleResultsOver == battle.pc = "results" /\ DuelStep(playRoundToMenu(battle))

BattleReady(p) == battle.pc # "created" /\ DuelStep(onReady(battle, p))

BattleShoot(p) ==
  /\ battle.pc # "created"
  /\ \E valid \in BOOLEAN, target \in Targets(p) :
       DuelStep(onShoot(battle, p, valid, target))

BattleMove(p) ==
  /\ battle.pc # "created"
  /\ \E valid \in BOOLEAN : DuelStep(onMove(battle, p, valid))

BattleAim(p) ==
  /\ battle.pc # "created"
  /\ \E valid \in BOOLEAN, direction \in Angles :
       DuelStep(onAim(battle, p, valid, direction))

\* Time passes: MOVE_DELAY and SHOT_DELAY are over for every player.
BattleDelaysOver ==
  /\ \E p \in DuelPlayers : battle.recentMove[p] \/ battle.recentShot[p]
  /\ DuelStep([out |-> <<>>,
               b |-> [battle EXCEPT !.recentMove = [p \in DuelPlayers |-> FALSE],
                                    !.recentShot = [p \in DuelPlayers |-> FALSE]]])

NextDuel ==
  \/ BattleOnBegin
  \/ BattleMenuPassed
  \/ BattleMenuTimedOut
  \/ BattlePassed
  \/ BattleResultsOver
  \/ \E p \in DuelPlayers : BattleReady(p)
  \/ \E p \in DuelPlayers : BattleShoot(p)
  \/ \E p \in DuelPlayers : BattleMove(p)
  \/ \E p \in DuelPlayers : BattleAim(p)
  \/ BattleDelaysOver

SpecDuel == InitDuel /\ [][NextDuel]_vars

(***************************************************************************)
(* Holdem in detail: up to MaxHoldemRooms Holdem objects whose rooms have  *)
(* begun, each with its round loop, and the module-level array             *)
(* STANDARD_DECK of common/cards.                                          *)
(*   STANDARD_DECK  the number of cards in the array (its cards are        *)
(*                  distinct and pop() only ever removes them)             *)
(*   rooms[r].deck  the array this.deck.cards refers to: "own" for the     *)
(*                  empty array of the field initialiser new Deck(),       *)
(*                  "STANDARD_DECK" once new Deck(STANDARD_DECK, true) has *)
(*                  stored the reference to the module's array             *)
(*   rooms[r].pc    the await the loop of the room is at; "thrown" when an *)
(*                  Error has ended it                                     *)
(*   rooms[r].hole, rooms[r].river  the numbers of cards dealt in the hand *)
(*   rooms[r].errorSent  the room has sent its members a gameError or a    *)
(*                  gameServerError about the failure of its loop          *)
(*   rooms[r].ended  the end-of-life callback this.end has been called     *)
(* The paths of Holdem.ts that throw log the failure and send nothing, and *)
(* nothing in Holdem.ts calls this.end: no operator writes the last two.   *)
(* A betting round is represented by its outcome (a single player left or  *)
(* not); the roster of a room stays as it was at the beginning.            *)
(***************************************************************************)
NewHoldem(n) ==
  [nPlayers |-> n,
   pc |-> "created",
   i |-> 0,
   currentRound |-> 0,
   currentRoundStage |-> "LOBBY",
   deck |-> "own",
   hole |-> 0,
   river |-> 0,
   errorSent |-> FALSE,
   ended |-> FALSE]

HoldemRooms(hd) == DOMAIN hd.rooms

\* The length of the array that the deck of room r refers to.
deckCards(hd, r) ==
  IF hd.rooms[r].deck = "STANDARD_DECK" THEN hd.STANDARD_DECK ELSE 0

\* k calls of Deck.draw on the deck of room r (Array.pop: undefined, and no
\* change, on an empty array).  ok: none of them returned undefined.
draw(hd, r, k) ==
  LET c == deckCards(hd, r)
  IN [ok |-> c >= k,
      hd |-> IF hd.rooms[r].deck = "STANDARD_DECK"
             THEN [hd EXCEPT !.STANDARD_DECK = IF c >= k THEN c - k ELSE 0]
             ELSE hd]

\* new Deck(STANDARD_DECK, true): this.cards = initial || [] keeps the
\* reference to the array passed; shuffleArray permutes it in place.
newDeck(hd, r) == [hd EXCEPT !.rooms[r].deck = "STANDARD_DECK"]

\* Holdem.prepareRound: every player draws two cards; the first player who
\* draws undefined throws.
prepareRound(hd, r) ==
  LET h0 == newDeck(hd, r)
      n == h0.rooms[r].nPlayers
      c == deckCards(h0, r)
      \* players served before one of them draws undefined
      served == IF c >= 2 * n THEN n ELSE c \div 2
      d == draw(h0, r, 2 * n)
  IN IF d.ok
     THEN [d.hd EXCEPT !.rooms[r].hole = 2 * n, !.rooms[r].river = 0]
     ELSE [d.hd EXCEPT !.rooms[r].hole = 2 * served, !.rooms[r].pc = "thrown"]

\* Holdem.playRound up to the betting after the preflop.
holdemPlayRound(hd, r) ==
  LET h1 == [hd EXCEPT !.rooms[r].currentRound = @ + 1,
                       !.rooms[r].currentRoundStage = "PREFLOP"]
      h2 == prepareRound(h1, r)
  IN IF h2.rooms[r].pc = "thrown" THEN h2
     ELSE [h2 EXCEPT !.rooms[r].pc = "preflop"]

\* doFlop, doTurn, doRiver: k cards from the deck to the river; a draw of
\* undefined throws.
dealRiver(hd, r, k, stage, pc) ==
  LET h1 == [hd EXCEPT !.rooms[r].currentRoundStage = stage]
      c == deckCards(h1, r)
      d == draw(h1, r, k)
  IN IF d.ok
     THEN [d.hd EXCEPT !.rooms[r].river = @ + k, !.rooms[r].pc = pc]
     ELSE [d.hd EXCEPT !.rooms[r].river = @ + c, !.rooms[r].pc = "thrown"]

\* finishRound; playRound returns to the loop of onBegin, which waits
\* BETWEEN_ROUND_DELAY.
finishRound(hd, r) == [hd EXCEPT !.rooms[r].pc = "between"]

\* Holdem.playRound from the end of a doBetting to the next await; winner:
\* doBetting has returned a winner.
afterBetting(hd, r, winner) ==
  IF winner THEN finishRound(hd, r)
  ELSE CASE hd.rooms[r].pc = "preflop" -> dealRiver(hd, r, 3, "FLOP", "flop")
         [] hd.rooms[r].pc = "flop" -> dealRiver(hd, r, 1, "TURN", "turn")
         [] hd.rooms[r].pc = "turn" -> dealRiver(hd, r, 1, "RIVER", "river")
         [] OTHER -> finishRound([hd EXCEPT !.rooms[r].currentRoundStage = "SHOWDOWN"], r)

\* The for loop of Holdem.onBegin after the wait between two rounds.
nextRound(hd, r) ==
  LET h1 == [hd EXCEPT !.rooms[r].i = @ + 1]
  IN IF h1.rooms[r].i < HOLDEM_N_ROUNDS THEN holdemPlayRound(h1, r)
     ELSE [h1 EXCEPT !.rooms[r].pc = "done"]

HoldemStep(hd) ==
  /\ holdem' = hd
  /\ UNCHANGED <<games, activeGames, alreadyGeneratedCodes, clients, sockUser,
                 listeners, timers, loops, blocked, hilar, battle, promise>>

HoldemSizes == HOLDEM_MIN_PLAYERS..HOLDEM_MAX_PLAYERS

\* beginGame has just run on each of the Holdem rooms; no onBegin has
\* started yet and the module's array is as the module defines it.
InitHoldem ==
  /\ InitServer
  /\ promise = Idle
  /\ hilar = Idle
  /\ battle = Idle
  /\ \E k \in 1..MaxHoldemRooms :
       holdem \in [pc : {"holdem"},
                   STANDARD_DECK : {DECK_SIZE},
                   rooms : [1..k -> {NewHoldem(n) : n \in HoldemSizes}]]

HoldemOnBegin(r) ==
  /\ holdem.rooms[r].pc = "created"
  /\ HoldemStep(holdemPlayRound(holdem, r))

HoldemBettingOver(r) ==
  /\ holdem.rooms[r].pc \in {"preflop", "flop", "turn", "river"}
  /\ \E winner \in BOOLEAN : HoldemStep(afterBetting(holdem, r, winner))

HoldemBetweenOver(r) ==
  /\ holdem.rooms[r].pc = "between"
  /\ HoldemStep(nextRound(holdem, r))

NextHoldem ==
  \/ \E r \in HoldemRooms(holdem) : HoldemOnBegin(r)
  \/ \E r \in HoldemRooms(holdem) : HoldemBettingOver(r)
  \/ \E r \in HoldemRooms(holdem) : HoldemBetweenOver(r)

SpecHoldem == InitHoldem /\ [][NextHoldem]_vars

(***************************************************************************)
(* Holdem betting in detail: one Holdem object of HOLDEM_MIN_PLAYERS       *)
(* players whose room has begun, with the whole of playRound and           *)
(* doBetting.  The variable holdem holds the object (a "table"):           *)
(*   pc            the await the loop is at: "roundWait" (BET_ROUND_WAIT_  *)
(*                 TIME before a doBetting), "display" (BET_DISPLAY_TIME), *)
(*                 "betWait" (createWaitUntilTimeout on askedHasBet),      *)
(*                 "showdownWait", "between", "done", "thrown"             *)
(*   cards         the length of the array of the deck (STANDARD_DECK)     *)
(*   river, hole   the numbers of cards dealt                              *)
(*   roundTotal, bi, callAmount, preFlop, asked   the locals roundTotal,   *)
(*                 i, callAmount, preFlop and p of doBetting               *)
(*   money, bet, pot, askedAmount   counted in 1/MoneyUnit, so that the    *)
(*                 division of finishRound is exact                        *)
(*   hands         the calls of playRound since the initial state          *)
(*                 (history)                                               *)
(*   turns         the players whose turn the current doBetting has        *)
(*                 announced (history)                                     *)
(* Hand scores stand for the results of rankCardsFast (package phe) on the *)
(* cards of the players.                                                   *)
(***************************************************************************)
TablePlayers == 1..HOLDEM_MIN_PLAYERS

MoneyUnit == 2 * HOLDEM_MIN_PLAYERS

Units(x) == x * MoneyUnit

NewTable ==
  [pc |-> "created",
   i |-> 0,
   currentRound |-> 0,
   currentRoundStage |-> "LOBBY",
   cards |-> DECK_SIZE,
   river |-> 0,
   pot |-> 0,
   askedUserId |-> 0,
   askedAction |-> "CHECK",
   askedAmount |-> 0,
   askedHasBet |-> FALSE,
   dealer |-> 0,
   smallBlind |-> 1,
   bigBlind |-> 2,
   roundPlayers |-> <<>>,
   seat |-> [p \in TablePlayers |-> 0],
   money |-> [p \in TablePlayers |-> Units(STARTING_MONEY)],
   bet |-> [p \in TablePlayers |-> 0],
   beenAsked |-> [p \in TablePlayers |-> FALSE],
   hasFolded |-> [p \in TablePlayers |-> FALSE],
   hole |-> [p \in TablePlayers |-> 0],
   preFlop |-> FALSE,
   roundTotal |-> 0,
   bi |-> -1,
   callAmount |-> 0,
   asked |-> 0,
   hands |-> 0,
   turns |-> {}]

TableEmit(to, ev, arg) == <<[to |-> to, ev |-> ev, arg |-> arg]>>

Quiet(t) == [out |-> <<>>, t |-> t]

\* r followed by F on the state r has left.
AndThen(r, F(_)) ==
  LET r2 == F(r.t) IN [out |-> r.out \o r2.out, t |-> r2.t]

\* Holdem.assignSeats: seats is the shuffled pool, one seat per player.
assignSeats(t, seats) ==
  [out |-> [p \in TablePlayers |-> [to |-> {p}, ev |-> "holdemSeat", arg |-> seats[p]]],
   t |-> [t EXCEPT !.seat = seats]]

\* The key (seat || -1) of the comparator in prepareRound.
SeatKey(seat) == IF seat = 0 THEN -1 ELSE seat

\* playersInOrder of prepareRound: the players sorted by that key.
playersInOrder(t) ==
  [k \in 1..Cardinality(TablePlayers) |->
     CHOOSE p \in TablePlayers :
       Cardinality({q \in TablePlayers : SeatKey(t.seat[q]) < SeatKey(t.seat[p])}) = k - 1]

\* Holdem.prepareRound on the table.
tablePrepareRound(t) ==
  LET n == Cardinality(TablePlayers)
      dealer == IF t.dealer + 1 >= n THEN 0 ELSE t.dealer + 1
      smallBlind == IF dealer + 1 >= n THEN 0 ELSE dealer + 1
      bigBlind == IF smallBlind + 1 >= n THEN 0 ELSE smallBlind + 1
      order == playersInOrder(t)
  IN IF t.cards < 2 * n
     THEN [t EXCEPT !.cards = 0, !.pot = 0, !.pc = "thrown"]
     ELSE [t EXCEPT !.cards = @ - 2 * n,
                    !.pot = 0,
                    !.hole = [p \in TablePlayers |-> 2],
                    !.hasFolded = [p \in TablePlayers |-> FALSE],
                    !.dealer = dealer,
                    !.smallBlind = smallBlind,
                    !.bigBlind = bigBlind,
                    !.roundPlayers = [k \in 1..n |-> order[((smallBlind + k - 1) % n) + 1]],
                    !.river = 0]

\* Holdem.playRound up to the wait before the first doBetting.
tablePlayRound(t) ==
  LET t1 == tablePrepareRound([t EXCEPT !.currentRound = @ + 1,
                                        !.currentRoundStage = "PREFLOP",
                                        !.hands = @ + 1])
  IN IF t1.pc = "thrown" THEN Quiet(t1)
     ELSE [out |-> TableEmit(TablePlayers, "holdemRoundBegin", 0)
                   \o [p \in TablePlayers |-> [to |-> {p}, ev |-> "holdemHoleCards", arg |-> 0]],
           t |-> [t1 EXCEPT !.pc = "roundWait"]]

\* Holdem.onBegin up to the first await.
tableOnBegin(t, seats) ==
  LET F(x) == tablePlayRound(x) IN AndThen(assignSeats(t, seats), F)

\* A faulty finishRound that pays the whole pot to every winner.
tableFinishRound_WholePot(t, winners) ==
  LET winnings == t.pot
      credit(p) == Cardinality({k \in 1..Len(winners) : winners[k] = p}) * winnings
  IN [out |-> TableEmit(TablePlayers, "holdemShowdownResult",
                        [pot |-> t.pot, winnings |-> winnings, winners |-> winners]),
      t |-> [t EXCEPT !.money = [p \in TablePlayers |-> @[p] + credit(p)],
                      !.pc = "between"]]

\* Holdem.finishRound, and the return of playRound to the loop of onBegin.
tableFinishRound(t, winners) ==
  LET winnings == t.pot \div Len(winners)
      credit(p) == Cardinality({k \in 1..Len(winners) : winners[k] = p}) * winnings
  IN [out |-> TableEmit(TablePlayers, "holdemShowdownResult",
                        [pot |-> t.pot, winnings |-> winnings, winners |-> winners]),
      t |-> [t EXCEPT !.money = [p \in TablePlayers |-> @[p] + credit(p)],
                      !.pc = "between"]]

\* doFlop, doTurn, doRiver on the table, and the wait that follows.
tableDeal(t, k, stage) ==
  LET t1 == [t EXCEPT !.currentRoundStage = stage]
  IN IF t1.cards < k
     THEN Quiet([t1 EXCEPT !.river = @ + t1.cards, !.cards = 0, !.pc = "thrown"])
     ELSE [out |-> TableEmit(TablePlayers, "holdemRiverUpdate", t1.river + k),
           t |-> [t1 EXCEPT !.river = @ + k, !.cards = @ - k, !.pc = "roundWait"]]

\* Holdem.playRound after a doBetting that returned undefined.
afterBettingUndefined(t) ==
  CASE t.currentRoundStage = "PREFLOP" -> tableDeal(t, 3, "FLOP")
    [] t.currentRoundStage = "FLOP" -> tableDeal(t, 1, "TURN")
    [] t.currentRoundStage = "TURN" -> tableDeal(t, 1, "RIVER")
    [] OTHER -> Quiet([t EXCEPT !.pc = "showdownWait"])

\* A faulty checkBettingComplete that ignores the amounts bet.
checkBettingComplete_AskedOnly(t) ==
  \A k \in 1..Len(t.roundPlayers) :
     LET p == t.roundPlayers[k]
     IN t.hasFolded[p] \/ t.beenAsked[p]

\* checkBettingComplete of doBetting.
checkBettingComplete(t) ==
  \A k \in 1..Len(t.roundPlayers) :
     LET p == t.roundPlayers[k]
     IN t.hasFolded[p] \/ (t.beenAsked[p] /\ t.bet[p] = t.roundTotal)

\* The head of the while loop of doBetting, to the next await.
bettingLoop(t) ==
  IF checkBettingComplete(t) THEN afterBettingUndefined(t)
  ELSE Quiet([t EXCEPT !.bi = IF @ + 1 >= Len(t.roundPlayers) THEN 0 ELSE @ + 1,
                       !.pc = "display"])

\* The beginning of doBetting.
doBetting(t) ==
  bettingLoop([t EXCEPT !.bet = [p \in TablePlayers |-> 0],
                        !.beenAsked = [p \in TablePlayers |-> FALSE],
                        !.roundTotal = 0,
                        !.bi = -1,
                        !.preFlop = (t.currentRoundStage = "PREFLOP"),
                        !.turns = {}])

\* The players who have not folded (notFolded of doBetting).
notFolded(t) == {p \in TablePlayers : ~t.hasFolded[p]}

\* A faulty processing of the bet that accepts a call the player cannot pay.
processBet_CallOnCredit(t) ==
  LET p == t.asked
      t0 == [t EXCEPT !.beenAsked[p] = TRUE, !.askedUserId = 0]
      action(amount) == TableEmit(TablePlayers, "holdemBettingAction",
                          [player |-> p, action |-> t0.askedAction, amount |-> amount])
      F(x) == bettingLoop(x)
  IN IF t0.askedAction = "CHECK" /\ t0.roundTotal = 0
     THEN AndThen([out |-> action(0), t |-> t0], F)
     ELSE IF t0.askedAction = "CALL"
     THEN AndThen([out |-> action(t0.callAmount),
                   t |-> [t0 EXCEPT !.money[p] = @ - t0.callAmount,
                                    !.bet[p] = @ + t0.callAmount,
                                    !.pot = @ + t0.callAmount]], F)
     ELSE IF /\ t0.askedAction = "RAISE"
             /\ t0.askedAmount > t0.callAmount
             /\ t0.money[p] >= t0.askedAmount
             /\ t0.askedAmount <= Units(BET_LIMIT)
     THEN AndThen([out |-> action(t0.askedAmount),
                   t |-> [t0 EXCEPT !.roundTotal = @ + t0.askedAmount - t0.callAmount,
                                    !.money[p] = @ - t0.askedAmount,
                                    !.bet[p] = @ + t0.askedAmount,
                                    !.pot = @ + t0.askedAmount]], F)
     ELSE LET t1 == [t0 EXCEPT !.hasFolded[p] = TRUE]
              fold == [out |-> TableEmit(TablePlayers, "holdemBettingAction",
                                   [player |-> p, action |-> "FOLD", amount |-> 0]),
                       t |-> t1]
              G(x) == tableFinishRound(x, <<CHOOSE w \in notFolded(x) : TRUE>>)
          IN IF Cardinality(notFolded(t1)) = 1 THEN AndThen(fold, G)
             ELSE AndThen(fold, F)

\* A faulty processing of the bet that goes on after the last fold.
processBet_NoWinnerCheck(t) ==
  LET p == t.asked
      t0 == [t EXCEPT !.beenAsked[p] = TRUE, !.askedUserId = 0]
      action(amount) == TableEmit(TablePlayers, "holdemBettingAction",
                          [player |-> p, action |-> t0.askedAction, amount |-> amount])
      F(x) == bettingLoop(x)
  IN IF t0.askedAction = "CHECK" /\ t0.roundTotal = 0
     THEN AndThen([out |-> action(0), t |-> t0], F)
     ELSE IF t0.askedAction = "CALL" /\ t0.money[p] >= t0.callAmount
     THEN AndThen([out |-> action(t0.callAmount),
                   t |-> [t0 EXCEPT !.money[p] = @ - t0.callAmount,
                                    !.bet[p] = @ + t0.callAmount,
                                    !.pot = @ + t0.callAmount]], F)
     ELSE IF /\ t0.askedAction = "RAISE"
             /\ t0.askedAmount > t0.callAmount
             /\ t0.money[p] >= t0.askedAmount
             /\ t0.askedAmount <= Units(BET_LIMIT)
     THEN AndThen([out |-> action(t0.askedAmount),
                   t |-> [t0 EXCEPT !.roundTotal = @ + t0.askedAmount - t0.callAmount,
                                    !.money[p] = @ - t0.askedAmount,
                                    !.bet[p] = @ + t0.askedAmount,
                                    !.pot = @ + t0.askedAmount]], F)
     ELSE LET t1 == [t0 EXCEPT !.hasFolded[p] = TRUE]
              fold == [out |-> TableEmit(TablePlayers, "holdemBettingAction",
                                   [player |-> p, action |-> "FOLD", amount |-> 0]),
                       t |-> t1]
          IN AndThen(fold, F)

\* doBetting from 'Mark the player as having been asked for a bet' to the
\* next await: the action and amount asked are applied or the player folds.
processBet(t) ==
  LET p == t.asked
      t0 == [t EXCEPT !.beenAsked[p] = TRUE, !.askedUserId = 0]
      action(amount) == TableEmit(TablePlayers, "holdemBettingAction",
                          [player |-> p, action |-> t0.askedAction, amount |-> amount])
      F(x) == bettingLoop(x)
  IN IF t0.askedAction = "CHECK" /\ t0.roundTotal = 0
     THEN AndThen([out |-> action(0), t |-> t0], F)
     ELSE IF t0.askedAction = "CALL" /\ t0.money[p] >= t0.callAmount
     THEN AndThen([out |-> action(t0.callAmount),
                   t |-> [t0 EXCEPT !.money[p] = @ - t0.callAmount,
                                    !.bet[p] = @ + t0.callAmount,
                                    !.pot = @ + t0.callAmount]], F)
     ELSE IF /\ t0.askedAction = "RAISE"
             /\ t0.askedAmount > t0.callAmount
             /\ t0.money[p] >= t0.askedAmount
             /\ t0.askedAmount <= Units(BET_LIMIT)
     THEN AndThen([out |-> action(t0.askedAmount),
                   t |-> [t0 EXCEPT !.roundTotal = @ + t0.askedAmount - t0.callAmount,
                                    !.money[p] = @ - t0.askedAmount,
                                    !.bet[p] = @ + t0.askedAmount,
                                    !.pot = @ + t0.askedAmount]], F)
     ELSE LET t1 == [t0 EXCEPT !.hasFolded[p] = TRUE]
              fold == [out |-> TableEmit(TablePlayers, "holdemBettingAction",
                                   [player |-> p, action |-> "FOLD", amount |-> 0]),
                       t |-> t1]
              G(x) == tableFinishRound(x, <<CHOOSE w \in notFolded(x) : TRUE>>)
          IN IF Cardinality(notFolded(t1)) = 1 THEN AndThen(fold, G)
             ELSE AndThen(fold, F)

\* The body of the while loop of doBetting after the BET_DISPLAY_TIME wait, to
\* the next await.
askPlayer(t) ==
  LET p == t.roundPlayers[t.bi + 1]
      callAmount == t.roundTotal - t.bet[p]
      t1 == [t EXCEPT !.askedUserId = 0,
                      !.askedAction = "FOLD",
                      !.askedAmount = 0,
                      !.callAmount = callAmount,
                      !.asked = p,
                      !.turns = @ \cup {p}]
      turn == TableEmit(TablePlayers, "holdemBettingTurn", t.seat[p])
      P(x) == processBet(x)
  IN IF t.hasFolded[p] THEN bettingLoop(t)
     ELSE IF t.preFlop /\ ~t.beenAsked[p] /\ t.seat[p] \in {t.smallBlind, t.bigBlind}
     THEN AndThen([out |-> turn,
                   t |-> [t1 EXCEPT !.askedAction = "RAISE",
                                    !.askedAmount = IF t.seat[p] = t.smallBlind
                                                    THEN Units(SMALL_BLIND)
                                                    ELSE Units(BIG_BLIND)]], P)
     ELSE [out |-> turn \o TableEmit({p}, "holdemBetRequest",
                                     [roundTotal |-> t.roundTotal, bet |-> t.bet[p],
                                      callAmount |-> callAmount, money |-> t.money[p]]),
           t |-> [t1 EXCEPT !.askedUserId = p, !.pc = "betWait"]]

\* createWaitUntilTimeout(askedHasBet, AUTOMATIC_FOLD_TIME, () => {}, true,
\* true) resolves: by its poll, which resets pass, or by its timeout, which
\* does not.
betWaitOver(t, polled) ==
  processBet(IF polled THEN [t EXCEPT !.askedHasBet = FALSE] ELSE t)

\* The payloads of 'holdemBetResponse': action is "none" when the field is
\* missing or not a number and "OTHER" for a number that is no BettingAction;
\* hasAmount is FALSE when the field amount is missing or not a number.
BetActions == {"CHECK", "CALL", "RAISE", "FOLD", "OTHER", "none"}

BetAmounts == {1, 3, BET_LIMIT, BET_LIMIT + 1}

BetPayloads ==
  [action : BetActions, hasAmount : {TRUE}, amount : BetAmounts]
  \cup [action : BetActions, hasAmount : {FALSE}, amount : {0}]

\* Holdem.handleBetResponse.
handleBetResponse(t, payload) ==
  IF payload.action = "none"
  THEN [t EXCEPT !.askedAction = "FOLD", !.askedAmount = 0, !.askedHasBet = TRUE]
  ELSE [t EXCEPT !.askedAction = payload.action,
                 !.askedAmount = IF payload.hasAmount THEN Units(payload.amount)
                                 ELSE @,
                 !.askedHasBet = TRUE]

\* The 'holdemBetResponse' listener of Holdem.addHandlers.
onBetResponse(t, p, payload) ==
  IF p = t.askedUserId THEN Quiet(handleBetResponse(t, payload))
  ELSE [out |-> TableEmit({p}, "gameError", 0), t |-> t]

\* The results of rankCardsFast: the rank of a hand, 0 for the best.
Scores == 0..MaxScore

\* A faulty getWinners loop that keeps only the first of the tied players.
RECURSIVE lowestFrom_FirstOnly(_, _, _)
lowestFrom_FirstOnly(scores, todo, lowest) ==
  IF todo = <<>> THEN lowest
  ELSE LET uid == Head(todo)
           best == IF lowest[1] = 0 THEN MaxScore + 1 ELSE scores[lowest[1]]
       IN lowestFrom_FirstOnly(scores, Tail(todo),
                               IF scores[uid] < best THEN <<uid>> ELSE lowest)

\* getWinners on the scores of the players of the showdown, visited in the
\* order of the roster; 0 stands for the '' of the initial entry.
RECURSIVE lowestFrom(_, _, _)
lowestFrom(scores, todo, lowest) ==
  IF todo = <<>> THEN lowest
  ELSE LET uid == Head(todo)
           best == IF lowest[1] = 0 THEN MaxScore + 1 ELSE scores[lowest[1]]
       IN lowestFrom(scores, Tail(todo),
                     IF scores[uid] = best THEN Append(lowest, uid)
                     ELSE IF scores[uid] < best THEN <<uid>>
                     ELSE lowest)

\* The roster in the order of the players map (the order of addPlayer).
RECURSIVE Roster(_)
Roster(n) == IF n = 0 THEN <<>> ELSE Append(Roster(n - 1), n)

getWinners(scores, folded) ==
  lowestFrom(scores,
             SelectSeq(Roster(Cardinality(TablePlayers)), LAMBDA p : ~folded[p]),
             <<0>>)

\* Holdem.doShowdown.
doShowdown(t, scores) ==
  tableFinishRound([t EXCEPT !.currentRoundStage = "SHOWDOWN"],
                   getWinners(scores, t.hasFolded))

\* The for loop of Holdem.onBegin after the BETWEEN_ROUND_DELAY wait.
tableNextRound(t) ==
  LET t1 == [t EXCEPT !.i = @ + 1]
  IN IF t1.i < HOLDEM_N_ROUNDS THEN tablePlayRound(t1)
     ELSE Quiet([t1 EXCEPT !.pc = "done"])

\* The table after a first hand in which every player has bet `stake` before
\* the flop and the first two players asked on the flop have folded: players
\* sit in the order of the roster, the third player of the betting order has
\* won the pot.
AfterFirstHand(stake) ==
  [NewTable EXCEPT
     !.pc = "between",
     !.currentRound = 1,
     !.currentRoundStage = "FLOP",
     !.cards = DECK_SIZE - 2 * Cardinality(TablePlayers) - 3,
     !.river = 3,
     !.pot = Units(3 * stake),
     !.askedAction = "FOLD",
     !.dealer = 1,
     !.smallBlind = 2,
     !.bigBlind = 0,
     !.roundPlayers = <<3, 1, 2>>,
     !.seat = [p \in TablePlayers |-> p - 1],
     !.money = [p \in TablePlayers |->
                  IF p = 2 THEN Units(STARTING_MONEY + 2 * stake)
                  ELSE Units(STARTING_MONEY - stake)],
     !.beenAsked = [p \in TablePlayers |-> p # 2],
     !.hasFolded = [p \in TablePlayers |-> p # 2],
     !.hole = [p \in TablePlayers |-> 2],
     !.bi = 1,
     !.asked = 1,
     !.turns = {3, 1}]

\* Two of the outcomes of the shuffle of assignSeats: the players sit in the
\* order of the roster or in the reverse order.
Seatings ==
  {[p \in TablePlayers |-> p - 1],
   [p \in TablePlayers |-> Cardinality(TablePlayers) - p]}

TableStep(r) ==
  /\ r.t.roundTotal <= Units(MaxRoundTotal)
  /\ r.t.pot <= Units(MaxPot)
  /\ holdem.hands <= MaxHands
  /\ holdem' = r.t
  /\ UNCHANGED <<games, activeGames, alreadyGeneratedCodes, clients, sockUser,
                 listeners, timers, loops, blocked, hilar, battle, promise>>

\* beginGame has just run on the Holdem room, or its first hand is over and
\* has left two of the players with LowMoney.
InitTable ==
  /\ InitServer
  /\ promise = Idle
  /\ hilar = Idle
  /\ battle = Idle
  /\ holdem \in {NewTable, AfterFirstHand(STARTING_MONEY - LowMoney)}

TableOnBegin ==
  /\ holdem.pc = "created"
  /\ \E seats \in Seatings : TableStep(tableOnBegin(holdem, seats))

TableRoundWaitOver == holdem.pc = "roundWait" /\ TableStep(doBetting(holdem))

TableDisplayOver == holdem.pc = "display" /\ TableStep(askPlayer(holdem))

TableBetPolled ==
  holdem.pc = "betWait" /\ holdem.askedHasBet /\ TableStep(betWaitOver(holdem, TRUE))

TableBetTimedOut == holdem.pc = "betWait" /\ TableStep(betWaitOver(holdem, FALSE))

TableShowdown ==
  /\ holdem.pc = "showdownWait"
  /\ \E scores \in [TablePlayers -> Scores] : TableStep(doShowdown(holdem, scores))

TableBetweenOver == holdem.pc = "between" /\ TableStep(tableNextRound(holdem))

TableBetResponse(p) ==
  /\ holdem.pc \notin {"created"}
  /\ \E payload \in BetPayloads : TableStep(onBetResponse(holdem, p, payload))

NextTable ==
  \/ TableOnBegin
  \/ TableRoundWaitOver
  \/ TableDisplayOver
  \/ TableBetPolled
  \/ TableBetTimedOut
  \/ TableShowdown
  \/ TableBetweenOver
  \/ \E p \in TablePlayers : TableBetResponse(p)

SpecTable == InitTable /\ [][NextTable]_vars

(***************************************************************************)
(* The player objects and the arrays they refer to: up to MaxShareRooms    *)
(* rooms of one game type (Hilar or Holdem) and the defaultPlayerData of   *)
(* its GameConfig, which all of them share.  An array is a reference into  *)
(* arrays, which holds the length of every array created so far; the       *)
(* array-valued fields of the template and of the players hold references. *)
(*   template  the array-valued fields of gameConfig.defaultPlayerData     *)
(*   room[p]   the room player p has been added to, 0 for none             *)
(*   data[p]   the array-valued fields of the player object of p           *)
(*   stage[x]  "LOBBY" before room x has begun, "ROUND" during a round     *)
(* The variable hilar holds this state.                                    *)
(***************************************************************************)
MaxSharePlayers == 4
MaxShareRooms == 2
MaxArrays == 12

SharePlayers == 1..MaxSharePlayers
ShareRooms == 1..MaxShareRooms

\* The array-valued fields of defaultPlayerData.
ListFields(gameId) ==
  IF gameId = "HILAR" THEN {"responses", "questions", "questionIndices"}
  ELSE {"cards"}

\* The module has been loaded: the array literals of defaultPlayerData are
\* the only arrays, all empty; no room has a player.
NewShare(gameId) ==
  [pc |-> "arrays",
   gameId |-> gameId,
   arrays |-> IF gameId = "HILAR" THEN <<0, 0, 0>> ELSE <<0>>,
   template |-> IF gameId = "HILAR"
                THEN [f \in ListFields(gameId) |->
                        CASE f = "responses" -> 1
                          [] f = "questions" -> 2
                          [] OTHER -> 3]
                ELSE [f \in ListFields(gameId) |-> 1],
   room |-> [p \in SharePlayers |-> 0],
   data |-> [p \in SharePlayers |-> [f \in ListFields(gameId) |-> 0]],
   stage |-> [x \in ShareRooms |-> "LOBBY"]]

\* A faulty addPlayer-and-round that never replaces the arrays of a player.
freshArray_Reuse(h, p, f, len) ==
  [h EXCEPT !.arrays[h.data[p][f]] = len]

\* p.f = [...] with len elements: a new array, referred to by field f of p.
freshArray(h, p, f, len) ==
  [h EXCEPT !.arrays = Append(@, len),
            !.data[p][f] = Len(h.arrays) + 1]

\* p.f.push(...)
push(h, p, f) == [h EXCEPT !.arrays[h.data[p][f]] = @ + 1]

\* Game.addPlayer without initialData: {...this.gameConfig.defaultPlayerData}
\* copies the values of the fields, for an array its reference.
spreadDefault(h, x, p) ==
  [h EXCEPT !.room[p] = x, !.data[p] = h.template]

\* The players of room x, in the order of the Map.
RECURSIVE RoomPlayersFrom(_, _, _)
RoomPlayersFrom(h, x, p) ==
  IF p > MaxSharePlayers THEN <<>>
  ELSE (IF h.room[p] = x THEN <<p>> ELSE <<>>) \o RoomPlayersFrom(h, x, p + 1)

RoomPlayers(h, x) == RoomPlayersFrom(h, x, 1)

\* The body of the loop over the players at the start of a round.
\* Hilar.assignQuestions: questions, questionIndices and responses are new
\* arrays, then two pushes on each of the first two.  Holdem.prepareRound:
\* p.cards = [first, second].
startPlayer(h, p) ==
  IF h.gameId = "HILAR"
  THEN LET h1 == freshArray(h, p, "questions", 0)
           h2 == freshArray(h1, p, "questionIndices", 0)
           h3 == freshArray(h2, p, "responses", 0)
           h4 == push(push(h3, p, "questions"), p, "questions")
       IN push(push(h4, p, "questionIndices"), p, "questionIndices")
  ELSE freshArray(h, p, "cards", 2)

RECURSIVE startPlayers(_, _)
startPlayers(h, todo) ==
  IF todo = <<>> THEN h
  ELSE startPlayers(startPlayer(h, Head(todo)), Tail(todo))

\* onBegin and playRound up to the first wait of the round, for room x.
startRound(h, x) ==
  [startPlayers(h, RoomPlayers(h, x)) EXCEPT !.stage[x] = "ROUND"]

\* Hilar.handleQuestionResponse with a valid text, as far as the arrays go.
respond(h, p) == push(h, p, "responses")

\* What player p's object shows: the length of the array behind each field.
View(h, p) == [f \in ListFields(h.gameId) |-> h.arrays[h.data[p][f]]]

\* What the template shows.
TemplateView(h) == [f \in ListFields(h.gameId) |-> h.arrays[h.template[f]]]

\* The least number of players of a room that can begin.
MinPlayers(gameId) == IF gameId = "HILAR" THEN 2 ELSE HOLDEM_MIN_PLAYERS

ShareStep(h) ==
  /\ Len(hilar.arrays) <= MaxArrays
  /\ \A a \in DOMAIN h.arrays : h.arrays[a] <= MaxResponses + 1
  /\ hilar' = h
  /\ UNCHANGED <<games, activeGames, alreadyGeneratedCodes, clients, sockUser,
                 listeners, timers, loops, blocked, battle, holdem, promise>>

InitShare ==
  /\ InitServer
  /\ promise = Idle
  /\ battle = Idle
  /\ holdem = Idle
  /\ hilar \in {NewShare("HILAR"), NewShare("HOLDEM")}

\* joinGame (or createGame) adds player p to room x: a Hilar room takes
\* players until it begins, a Holdem room also afterwards.
ShareAddPlayer(x, p) ==
  /\ hilar.room[p] = 0
  /\ hilar.gameId = "HILAR" => hilar.stage[x] = "LOBBY"
  /\ ShareStep(spreadDefault(hilar, x, p))

\* beginGame on room x, or the next round of its loop.
ShareStartRound(x) ==
  /\ Len(RoomPlayers(hilar, x)) >= MinPlayers(hilar.gameId)
  /\ ShareStep(startRound(hilar, x))

\* A player of a Hilar room in its round sends a response.
ShareRespond(p) ==
  /\ hilar.gameId = "HILAR"
  /\ hilar.room[p] # 0
  /\ hilar.stage[hilar.room[p]] = "ROUND"
  /\ ShareStep(respond(hilar, p))

NextShare ==
  \/ \E x \in ShareRooms, p \in SharePlayers : ShareAddPlayer(x, p)
  \/ \E x \in ShareRooms : ShareStartRound(x)
  \/ \E p \in SharePlayers : ShareRespond(p)

SpecShare == InitShare /\ [][NextShare]_vars

(***************************************************************************)
(* The three games in detail, side by side: a begun Hilar room, a begun    *)
(* Duel room or a begun Holdem table, each with its round loop and the     *)
(* events of its players.                                                  *)
(***************************************************************************)
InitGames == InitHilar \/ InitDuel \/ InitTable

NextGames ==
  \/ hilar # Idle /\ NextHilar
  \/ battle # Idle /\ NextDuel
  \/ holdem # Idle /\ NextTable

SpecGames == InitGames /\ [][NextGames]_vars

(***************************************************************************)
(* createWaitUntilTimeout in detail: one call, its promise, its interval   *)
(* and its timeout.  Time is counted in runs of the interval callback: the *)
(* timeout is due together with run number timeout, and of two callbacks   *)
(* that are due together either may run first.                             *)
(***************************************************************************)
MaxTimeoutPolls == 3

\* createWaitUntilTimeout(timerState, timeout, timeoutCallback,
\* resetStateAfterPass, resolveAfterTimeout), called with timerState.pass = pass:
\* the promise is pending, setInterval and setTimeout are armed.
createWaitUntilTimeout(pass, timeout, resetStateAfterPass, resolveAfterTimeout) ==
  [pc |-> "promise",
   pass |-> pass,
   timeout |-> timeout,
   resetStateAfterPass |-> resetStateAfterPass,
   resolveAfterTimeout |-> resolveAfterTimeout,
   polls |-> 0,             \* runs of the interval callback so far
   interval |-> TRUE,       \* the interval has not been cleared
   timer |-> TRUE,          \* the setTimeout callback has not run yet
   resolved |-> FALSE,
   callbacks |-> 0]         \* calls of timeoutCallback so far

\* The setInterval callback.
intervalCallback(w) ==
  LET w1 == [w EXCEPT !.polls = @ + 1]
  IN IF w.pass
     THEN [w1 EXCEPT !.interval = FALSE,
                     !.pass = IF w.resetStateAfterPass THEN FALSE ELSE @,
                     !.resolved = TRUE]
     ELSE w1

\* The setTimeout callback.
timeoutElapsed(w) ==
  [w EXCEPT !.timer = FALSE,
            !.callbacks = @ + 1,
            !.interval = FALSE,
            !.resolved = @ \/ w.resolveAfterTimeout]

\* A handler of the game sets timerState.pass.
signal(w) == [w EXCEPT !.pass = TRUE]

PromiseStep(w) ==
  /\ promise' = w
  /\ UNCHANGED <<games, activeGames, alreadyGeneratedCodes, clients, sockUser,
                 listeners, timers, loops, blocked, hilar, battle, holdem>>

InitPromise ==
  /\ InitServer
  /\ hilar = Idle
  /\ battle = Idle
  /\ holdem = Idle
  /\ \E pass \in BOOLEAN, timeout \in 1..MaxTimeoutPolls,
        resetStateAfterPass \in BOOLEAN, resolveAfterTimeout \in BOOLEAN :
       promise = createWaitUntilTimeout(pass, timeout, resetStateAfterPass,
                                        resolveAfterTimeout)

\* The interval callback runs: it is due every CHECK_INTERVAL until the
\* interval is cleared, and run number timeout + 1 is due after the timeout.
PromisePoll ==
  /\ promise.interval
  /\ promise.polls < promise.timeout
  /\ PromiseStep(intervalCallback(promise))

\* The timeout callback runs, once: after the runs of the interval callback
\* that were due before it.
PromiseTimeout ==
  /\ promise.timer
  /\ promise.interval => promise.polls >= promise.timeout - 1
  /\ PromiseStep(timeoutElapsed(promise))

PromiseSignal ==
  /\ ~promise.pass
  /\ PromiseStep(signal(promise))

NextPromise ==
  \/ PromisePoll
  \/ PromiseTimeout
  \/ PromiseSignal

SpecPromise == InitPromise /\ [][NextPromise]_vars

\* The event loop runs the callbacks that are due; whether a handler sets the
\* signal is up to the players.
FairSpecPromise ==
  /\ SpecPromise
  /\ WF_vars(PromisePoll)
  /\ WF_vars(PromiseTimeout)

(***************************************************************************)
(* The waits of the round loops under a fair event loop: the rooms of the  *)
(* registry with their loops, timers and events, or a Holdem table to      *)
(* which no player sends anything.                                         *)
(***************************************************************************)
InitWaits ==
  /\ InitServer
  /\ promise = Idle
  /\ hilar = Idle
  /\ battle = Idle
  /\ holdem \in {Idle, NewTable}

\* The round loop of the table resumes from the await it is suspended at,
\* no bet having been sent.
TableResume ==
  \/ TableOnBegin
  \/ TableRoundWaitOver
  \/ TableDisplayOver
  \/ TableBetTimedOut
  \/ TableBetweenOver

NextWaits ==
  \/ NextPlay
  \/ TableResume

SpecWaits == InitWaits /\ [][NextWaits]_vars

\* The event loop runs every expired timer and resumes every round loop whose
\* wait is over; what the clients send is up to them.
FairSpecWaits ==
  /\ SpecWaits
  /\ WF_vars(JoinTimeout)
  /\ WF_vars(ReadyTimeout)
  /\ WF_vars(\E l \in DOMAIN loops : Resume(l))
  /\ WF_vars(TableResume)

(***************************************************************************)
(* Connections that close: the registry with one room, where promise holds *)
(* the set of the SocketClient objects whose socket has disconnected       *)
(* (closed).  A closed socket delivers no command and no event any more.   *)
(***************************************************************************)
\* The listener of 'disconnecting' of createClientEventHandlers: it stores
\* user.lastLogout and touches neither the clients map nor the rooms.
disconnecting(st, sock) == [out |-> <<>>, st |-> st]

\* The sockets that are connected.
Open == DOMAIN sockUser \ promise.closed

InitSession ==
  /\ InitServer
  /\ promise = [pc |-> "session", closed |-> {}]
  /\ hilar = Idle
  /\ battle = Idle
  /\ holdem = Idle

\* The socket of SocketClient s disconnects.
Disconnect(s) ==
  /\ ~blocked
  /\ WithinBounds(disconnecting(St, s).st)
  /\ games' = Collect(disconnecting(St, s).st).games
  /\ promise' = [promise EXCEPT !.closed = @ \cup {s}]
  /\ UNCHANGED <<activeGames, alreadyGeneratedCodes, clients, sockUser, listeners,
                 timers, loops, blocked, hilar, battle, holdem>>

NextSession ==
  \/ \E u \in Users : Connect(u)
  \/ \E s \in Open, gameId \in RequestedGameIds : CreateGame(s, gameId, PlayGames)
  \/ \E s \in Open, joinCode \in Codes : JoinGame(s, joinCode)
  \/ \E s \in Open : BeginGame(s)
  \/ \E s \in Open : TerminateGame(s)
  \/ \E s \in Open : LeaveGame(s)
  \/ \E s \in Open : ChatMessage(s)
  \/ JoinTimeout
  \/ ReadyTimeout
  \/ \E s \in Open : Disconnect(s)

SpecSession == InitSession /\ [][NextSession]_vars

(***************************************************************************)
(* Properties of the room lifecycle.                                       *)
(***************************************************************************)
\* C1: the roster of every live room has at most maxPlayers members, and a
\* joinGame on a room whose roster is at maxPlayers returns false, sends one
\* gameError to the caller and changes nothing.
C1_RosterWithinMaxPlayers ==
  /\ \A g \in LiveGames(St) :
       Cardinality(games[g].players) <= gameConfig(games[g].gameId).maxPlayers
  /\ \A s \in DOMAIN sockUser, c \in Codes :
       (activeGames[c] # 0 /\ IsFull(games[activeGames[c]])) =>
         LET r == joinGame(St, c, s, FALSE)
         IN r.ret = FALSE /\ IsErrorTo(r.out, s) /\ r.st = St

\* A full room is live and a connected user is in no room.
C1_FullRoomAndOutsider ==
  /\ \E c \in Codes : activeGames[c] # 0 /\ IsFull(games[activeGames[c]])
  /\ \E s \in DOMAIN sockUser : ~playerInGame(St, sockUser[s])

\* C2: every user is in the roster of at most one live room, and createGame
\* and joinGame called by a user who is in the roster of a live room return
\* false, send one gameError to the caller and change nothing.
C2_OneRoomPerIdentity ==
  /\ \A u \in Users :
       Cardinality({g \in LiveGames(St) : u \in games[g].players}) <= 1
  /\ \A s \in DOMAIN sockUser :
       playerInGame(St, sockUser[s]) =>
         /\ \A c \in Codes :
              LET r == joinGame(St, c, s, FALSE)
              IN r.ret = FALSE /\ IsErrorTo(r.out, s) /\ r.st = St
         /\ \A gameId \in RequestedGameIds, c \in generateCode :
              LET r == createGame(St, gameId, s, c)
              IN r.ret = FALSE /\ IsErrorTo(r.out, s) /\ r.st = St

\* Two rooms are live, each with a member.
C2_TwoOccupiedRooms ==
  /\ Cardinality(LiveGames(St)) = 2
  /\ \A g \in LiveGames(St) : games[g].players # {}

\* C3: generateCode never returns the code of a live room, so no step puts
\* another room in the place of a live room: an entry of activeGames changes
\* only by being deleted.
C3_LiveRoomNeverReplaced ==
  [][\A c \in Codes :
       (activeGames[c] # 0 /\ activeGames'[c] # activeGames[c]) =>
         activeGames'[c] = 0]_vars

\* C4: beginGame returns false, sends one gameError to the caller and changes
\* nothing when the caller is in no room, is not the creator of the room, or
\* the roster is smaller than minPlayers; otherwise it returns true, sets
\* hasBegun and starts a round loop of the room.
C4_BeginGameEligibility ==
  \A s \in DOMAIN sockUser, spin \in BOOLEAN :
    LET userId == sockUser[s]
        g == getPlayerGame(St, userId)
        r == beginGame(St, s, spin)
    IN IF \/ g = 0
          \/ games[g].creatorId # userId
          \/ Cardinality(games[g].players) < gameConfig(games[g].gameId).minPlayers
       THEN r.ret = FALSE /\ IsErrorTo(r.out, s) /\ r.st = St
       ELSE /\ r.ret = TRUE
            /\ r.st.games[g].hasBegun
            /\ r.out # <<>> /\ r.out[1].ev = "gameBegin"
            /\ Len(r.st.loops) = Len(loops) + 1
            /\ r.st.loops[Len(r.st.loops)].g = g

\* A room was begun by its creator and has another member, whose beginGame
\* is rejected.
C4_BegunRoomWithGuest ==
  \E g \in LiveGames(St) :
    /\ games[g].hasBegun
    /\ \E l \in DOMAIN loops : loops[l].g = g
    /\ \E s \in DOMAIN sockUser :
         sockUser[s] \in games[g].players /\ sockUser[s] # games[g].creatorId

\* C5 (as the code has it): when the join timeout of a live room that has
\* not begun fires, the roster members with a connection get gameError and
\* then gameEnd, and the room leaves the registry; a join code with no room
\* in the registry cannot be joined ("does not exist" for a caller in no
\* room); when the timeout fires on a room that has begun, nothing is sent
\* and nothing but the timer queue changes.
C5_JoinTimeoutEndsUnbegunRoom ==
  /\ \A c \in Codes, s \in DOMAIN sockUser :
       activeGames[c] = 0 =>
         LET j == joinGame(St, c, s, FALSE)
         IN /\ j.ret = FALSE /\ IsErrorTo(j.out, s) /\ j.st = St
            /\ ~playerInGame(St, sockUser[s]) =>
                 j.out[1].arg.message = "does not exist"
  /\ (timers # <<>> /\ Head(timers).kind = "join") =>
       LET g == Head(timers).g
           r == joinTimeout(St, g)
       IN /\ (g \in LiveGames(St) /\ ~games[g].hasBegun) =>
               /\ \A p \in games[g].players :
                    /\ clients[p] # 0
                    /\ EventsTo(r.out, clients[p]) = <<"gameError", "gameEnd">>
               /\ \A i \in DOMAIN r.out : r.out[i].to = Audience(St, g)
               /\ g \notin LiveGames(r.st)
               /\ r.st.activeGames[games[g].joinCode] = 0
          /\ games[g].hasBegun =>
               r.out = <<>> /\ r.st = [St EXCEPT !.timers = Tail(@)]

\* A room was removed by its join timeout.
C5_RoomTimedOut ==
  \E g \in DOMAIN games : games[g].removedBy = "timeout"

\* C5 (as stated): after the join timeout has removed a room, every later
\* joinGame with the join code of that room fails with "does not exist".
C5_CodeNeverJoinableAgain ==
  \A g \in DOMAIN games :
    games[g].removedBy = "timeout" =>
      \A s \in DOMAIN sockUser :
        LET j == joinGame(St, games[g].joinCode, s, FALSE)
        IN /\ j.ret = FALSE
           /\ IsErrorTo(j.out, s)
           /\ j.out[1].arg.message = "does not exist"

\* C6: a live room whose round loop has completed is eventually removed
\* from the registry.
C6_CompletedLoopEndsRoom ==
  \A g \in GameRefs :
    (/\ g \in LiveGames(St)
     /\ \E l \in DOMAIN loops : loops[l].g = g /\ loops[l].pc = "done")
      ~> (g \notin LiveGames(St))

\* C7: terminateGame by the creator of a room returns true, sends gameEnd to
\* the roster members with a connection and removes the room from the
\* registry, after which its join code cannot be joined and its members are
\* in no game; terminateGame by anybody else returns false, sends one
\* gameError to the caller and changes nothing.
C7_TerminateByCreatorOnly ==
  \A s \in DOMAIN sockUser :
    LET userId == sockUser[s]
        g == getPlayerGame(St, userId)
        r == terminateGame(St, s)
    IN IF g # 0 /\ games[g].creatorId = userId
       THEN /\ r.ret = TRUE
            /\ Len(r.out) = 1
            /\ r.out[1].ev = "gameEnd"
            /\ r.out[1].to = {clients[p] : p \in games[g].players}
            /\ g \notin LiveGames(r.st)
            /\ \A s2 \in DOMAIN sockUser :
                 joinGame(r.st, games[g].joinCode, s2, FALSE).ret = FALSE
            /\ \A p \in games[g].players : ~playerInGame(r.st, p)
       ELSE r.ret = FALSE /\ IsErrorTo(r.out, s) /\ r.st = St

\* The creator has terminated a room of two or more members.
C7_TerminatedRoomOfTwo ==
  \E g \in DOMAIN games :
    games[g].removedBy = "terminate" /\ Cardinality(games[g].players) >= 2

\* C8: once a room has been removed from the registry by terminateGame, by
\* its end-of-life callback or by the join timeout, no step changes its
\* phase, its player state or anything else of it.
C8_EndedRoomIsInert ==
  [][\A g \in DOMAIN games :
       (/\ games[g].removedBy \in {"terminate", "callback", "timeout"}
        /\ ~IsCollected(games[g])
        /\ ~IsCollected(games'[g])) =>
         games'[g] = games[g]]_vars

\* C9: hasBegun is false in a new room, becomes true only in a beginGame of
\* the creator with at least minPlayers members, and is never reset while
\* the Game object is in use.
C9_HasBegunOnceAndForAll ==
  [][\A g \in DOMAIN games' :
       /\ g \notin DOMAIN games => ~games'[g].hasBegun
       /\ (g \in DOMAIN games /\ games[g].hasBegun /\ ~IsCollected(games'[g])) =>
            games'[g].hasBegun
       /\ (g \in DOMAIN games /\ ~games[g].hasBegun /\ games'[g].hasBegun) =>
            \E s \in DOMAIN sockUser, spin \in BOOLEAN :
              /\ sockUser[s] = games[g].creatorId
              /\ getPlayerGame(St, sockUser[s]) = g
              /\ Cardinality(games[g].players) >=
                   gameConfig(games[g].gameId).minPlayers
              /\ beginGame(St, s, spin).ret = TRUE
              /\ St' = Collect(beginGame(St, s, spin).st)]_vars

\* A begun room is in its second round.
C9_BegunRoomInSecondRound ==
  \E g \in LiveGames(St) : games[g].hasBegun /\ games[g].currentRound >= 2

\* C10: a createGame that returns true leaves exactly one new live room,
\* with the roster {creator}, the creator as creatorId and hasBegun false,
\* and sends the creator gameInfo with isHost true; createGame with an
\* unknown game id returns false, sends one gameError to the caller and
\* changes nothing.
C10_CreateGameResult ==
  \A s \in DOMAIN sockUser, gameId \in RequestedGameIds, c \in generateCode :
    LET r == createGame(St, gameId, s, c)
        g == Len(games) + 1
    IN /\ gameId \notin {"HILAR", "DUEL", "CHAT"} =>
            r.ret = FALSE /\ IsErrorTo(r.out, s) /\ r.st = St
       /\ r.ret = TRUE =>
            /\ LiveGames(r.st) \ LiveGames(St) = {g}
            /\ r.st.games[g].players = {sockUser[s]}
            /\ r.st.games[g].creatorId = sockUser[s]
            /\ ~r.st.games[g].hasBegun
            /\ r.st.games[g].gameId = gameId
            /\ r.out[1].to = {s}
            /\ r.out[1].ev = "gameInfo"
            /\ r.out[1].arg.isHost = TRUE
            /\ \A h \in DOMAIN games : r.st.games[h] = games[h]
       /\ (gameId \in {"HILAR", "DUEL", "CHAT"} /\ ~playerInGame(St, sockUser[s])) =>
            r.ret = TRUE

\* A second room has just been created: it is live, its roster is its
\* creator alone, it has not begun and its join timer is the newest timer.
C10_FreshSecondRoom ==
  /\ Len(games) = 2
  /\ 2 \in LiveGames(St)
  /\ games[2].players = {games[2].creatorId}
  /\ ~games[2].hasBegun
  /\ timers # <<>> /\ timers[Len(timers)] = JoinTimer(2)

\* C11: joinGame never adds a player to a room that has begun unless the
\* room's configuration permits joining after begin (a configuration that
\* leaves canJoinAfterBegin unset, as Duel's, does not permit it): the call
\* returns false, sends the caller one gameError and changes nothing.  When
\* the room has begun and late joins are permitted, a successful joinGame
\* adds the caller to the roster, attaches the room's handlers to the
\* caller's connection in the same step and first sends the caller gameInfo
\* with hasBegun true; it succeeds whenever the caller is in no room and the
\* room is not full.
C11_JoinAfterBegin ==
  /\ ~Truthy(DUEL_GAME_CONFIG.canJoinAfterBegin)
  /\ ~Truthy(HILAR_GAME_CONFIG.canJoinAfterBegin)
  /\ \A s \in DOMAIN sockUser, c \in Codes :
       LET g == activeGames[c]
           u == sockUser[s]
           r == joinGame(St, c, s, FALSE)
           late == Truthy(gameConfig(games[g].gameId).canJoinAfterBegin)
       IN (g # 0 /\ games[g].hasBegun) =>
            /\ ~late => r.ret = FALSE /\ IsErrorTo(r.out, s) /\ r.st = St
            /\ r.ret = TRUE =>
                 /\ late
                 /\ u \notin games[g].players
                 /\ r.st.games[g].players = games[g].players \cup {u}
                 /\ r.st.listeners[s] = Append(listeners[s], g)
                 /\ r.out[1].to = {s}
                 /\ r.out[1].ev = "gameInfo"
                 /\ r.out[1].arg.hasBegun = TRUE
            /\ (late /\ ~playerInGame(St, u) /\ ~IsFull(games[g])) => r.ret = TRUE

\* A begun chat room in which nothing has been said yet holds a member
\* besides its creator whose connection carries the room's handlers.
C11_LateJoinerInBegunChat ==
  \E g \in LiveGames(St) :
    /\ games[g].gameId = "CHAT"
    /\ games[g].hasBegun
    /\ games[g].messages = 0
    /\ \E u \in games[g].players \ {games[g].creatorId} :
         clients[u] # 0 /\ listeners[clients[u]] = <<g>>

\* C12: leaveGame returns false, sends the caller one gameError and changes
\* nothing when the caller is in no live room or the room's configuration
\* forbids leaving; otherwise it returns true, removes exactly the caller
\* from that room's roster and changes nothing else, sends gamePlayers with
\* the new roster to the remaining members and gameLeave to the caller, and
\* afterwards the caller is in no room, so that the caller's createGame
\* succeeds and so does the caller's joinGame on every live room that is not
\* full and can still be joined.
C12_LeaveGameResult ==
  \A s \in DOMAIN sockUser :
    LET u == sockUser[s]
        g == getPlayerGame(St, u)
        r == leaveGame(St, s)
    IN IF g = 0 \/ ~Truthy(gameConfig(games[g].gameId).canLeaveAfterBegin)
       THEN r.ret = FALSE /\ IsErrorTo(r.out, s) /\ r.st = St
       ELSE /\ r.ret = TRUE
            /\ r.st = [St EXCEPT !.games[g].players = @ \ {u}]
            /\ u \in games[g].players
            /\ EventsTo(r.out, s) = <<"gameLeave">>
            /\ \A p \in games[g].players \ {u} :
                 clients[p] # 0 => EventsTo(r.out, clients[p]) = <<"gamePlayers">>
            /\ \A i \in DOMAIN r.out :
                 r.out[i].ev = "gamePlayers" =>
                   /\ r.out[i].arg = games[g].players \ {u}
                   /\ r.out[i].to = Audience(r.st, g)
            /\ ~playerInGame(r.st, u)
            /\ \A gameId \in {"HILAR", "DUEL", "CHAT"}, c \in generateCode :
                 createGame(r.st, gameId, s, c).ret = TRUE
            /\ \A c \in Codes :
                 LET h == r.st.activeGames[c]
                 IN (/\ h # 0
                     /\ ~IsFull(r.st.games[h])
                     /\ (r.st.games[h].hasBegun =>
                           Truthy(gameConfig(r.st.games[h].gameId).canJoinAfterBegin)))
                    => joinGame(r.st, c, s, FALSE).ret = TRUE

\* The creator of a live chat room has left it and is now in the roster of
\* another live room.
C12_CreatorLeftForAnotherRoom ==
  \E g \in LiveGames(St) :
    /\ games[g].gameId = "CHAT"
    /\ games[g].creatorId \notin games[g].players
    /\ \E h \in LiveGames(St) \ {g} : games[g].creatorId \in games[h].players

\* C13: when user u makes a new connection, the new connection replaces u's
\* entry in the session registry.  If u is in the roster of a live room, the
\* room's handlers are attached to the new connection, the new connection
\* receives connEstablishRes, then gameInfo (isHost true exactly when u is
\* the creator, hasBegun as it currently is), then gamePlayers with the
\* current roster, no room changes, and the new connection is among the
\* sockets the room's broadcasts reach; if u is in no live room,
\* attemptRejoin returns false, sends nothing and changes nothing.  A
\* broadcast always reaches the newest connection of every roster member.
C13_RejoinOnReconnect ==
  /\ \A u \in Users :
       LET sock == Len(sockUser) + 1
           g == getPlayerGame(St, u)
           registered == [St EXCEPT !.sockUser = Append(@, u),
                                    !.listeners = Append(@, <<>>),
                                    !.clients[u] = sock]
           r == handleNewConnection(St, u)
           a == attemptRejoin(registered, sock)
       IN IF g # 0
          THEN /\ r.st = [registered EXCEPT !.listeners[sock] = <<g>>]
               /\ Len(r.out) = 3
               /\ \A i \in 1..3 : r.out[i].to = {sock}
               /\ EventsTo(r.out, sock) = <<"connEstablishRes", "gameInfo", "gamePlayers">>
               /\ r.out[2].arg = [gameId |-> games[g].gameId,
                                  joinCode |-> games[g].joinCode,
                                  isHost |-> (games[g].creatorId = u),
                                  hasBegun |-> games[g].hasBegun]
               /\ r.out[3].arg = games[g].players
               /\ sock \in Audience(r.st, g)
          ELSE /\ a.ret = FALSE /\ a.out = <<>> /\ a.st = registered
               /\ r.st = registered
               /\ EventsTo(r.out, sock) = <<"connEstablishRes">>
  /\ \A u \in Users :
       LET socks == {s \in DOMAIN sockUser : sockUser[s] = u}
       IN /\ socks = {} => clients[u] = 0
          /\ socks # {} => clients[u] \in socks /\ \A s \in socks : s <= clients[u]
  /\ \A g \in DOMAIN games : \A u \in games[g].players :
       clients[u] # 0 => clients[u] \in Audience(St, g)

\* A member of a live room that has begun has reconnected: the member's
\* older connection and the newer one, which the registry holds, both carry
\* the room's handlers.
C13_MemberReconnected ==
  \E g \in LiveGames(St) : \E u \in games[g].players :
    \E s \in DOMAIN sockUser :
      /\ games[g].hasBegun
      /\ sockUser[s] = u
      /\ s < clients[u]
      /\ listeners[s] = <<g>>
      /\ listeners[clients[u]] = <<g>>

WellAssigned(idx, n) ==
  /\ DOMAIN idx = 1..n
  /\ \A p \in 1..n :
       /\ Len(idx[p]) = 2
       /\ idx[p][1] \in 0..(n - 1)
       /\ idx[p][2] \in 0..(n - 1)
       /\ idx[p][1] # idx[p][2]
  /\ \A k \in 0..(n - 1) :
       Cardinality({p \in 1..n : idx[p][1] = k \/ idx[p][2] = k}) = 2

\* C15: whenever populateQuestions and assignQuestions have completed for
\* a roster of n players, the round has exactly n prompts, each with an
\* empty response list, every prompt index is assigned to exactly two
\* distinct players and every player holds exactly two distinct prompt
\* indices: in every round of the Hilar specification, and for every outcome
\* of assignQuestions for 2..MaxAssignPlayers players.
C15_QuestionsAssigned ==
  /\ hilar.pc \notin {"created", "spin"} =>
       /\ hilar.nQuestions = hilar.nPlayers
       /\ DOMAIN hilar.currentQuestionResponses = 0..(hilar.nPlayers - 1)
       /\ WellAssigned(hilar.questionIndices, hilar.nPlayers)
  /\ hilar.pc = "created" =>
       \A n \in 2..MaxAssignPlayers : \A a \in assignQuestions(n) :
         ~a.spin => WellAssigned(a.idx, n)
  /\ hilar.pc \in {"created", "leaderboard"} =>
       \A a \in assignQuestions(hilar.nPlayers) :
         LET h == playRound(hilar, a).h
         IN ~a.spin =>
            /\ h.nQuestions = hilar.nPlayers
            /\ \A k \in 0..(hilar.nPlayers - 1) : h.currentQuestionResponses[k] = <<>>
            /\ WellAssigned(h.questionIndices, hilar.nPlayers)

\* The second round of a room of two has handed out its prompts and nobody
\* has responded yet.
C15_SecondRoundAssigned ==
  /\ hilar.pc = "respond"
  /\ hilar.currentRound = 2
  /\ hilar.nPlayers = 2
  /\ \A p \in HilarPlayers(hilar) : hilar.responses[p] = 0

\* C16: in every round, the RESPOND wait can end before its deadline (the
\* poll of createPassableWait finds pass set) only when all the expected
\* responses of that round, two per player, have been accepted in that
\* round.
C16_RespondEndsEarlyOnlyWhenComplete ==
  (hilar.pc = "respond" /\ hilar.pass) =>
    AcceptedResponses(hilar) = 2 * hilar.nPlayers

\* C17: for every prompt that goes to a vote, the net tally that decides
\* the award when the vote window closes equals the sum of the votes counted
\* during that window, at most one per voter; a negative tally awards the
\* round-scaled points to the author of the first response, a positive one
\* to the author of the second, and a zero tally gives half to each.
C17_AwardFollowsWindowTally ==
  hilar.pc = "vote" =>
    LET qResp == hilar.currentQuestionResponses[hilar.q]
        p1 == qResp[1]
        p2 == qResp[2]
        full == POINTS_PER_RESPONSE + ROUND_BONUS_POINTS * hilar.currentRound
        tally == WindowTally(hilar)
    IN /\ \A p \in HilarPlayers(hilar) : Len(hilar.cast[p]) <= 1
       /\ \A passed \in BOOLEAN :
            LET r == voteWaitOver(hilar, passed)
                gain == [p \in HilarPlayers(hilar) |-> r.h.score[p] - hilar.score[p]]
            IN /\ tally < 0 => gain = [p \in HilarPlayers(hilar) |->
                                          IF p = p1 THEN full ELSE 0]
               /\ tally > 0 => gain = [p \in HilarPlayers(hilar) |->
                                          IF p = p2 THEN full ELSE 0]
               /\ tally = 0 => gain = [p \in HilarPlayers(hilar) |->
                                          IF p \in {p1, p2} THEN RoundHalf(full) ELSE 0]

\* C18: while the vote window of a prompt is open, a hilarVote of either
\* author of the prompt's two responses is rejected with gameError and
\* changes nothing, whatever happened in the earlier vote windows.
C18_AuthorsNeverVote ==
  hilar.pc = "vote" =>
    LET qResp == hilar.currentQuestionResponses[hilar.q]
    IN \A p \in {qResp[1], qResp[2]}, vote \in {-1, 1} :
         LET r == onVote(hilar, p, vote)
         IN /\ r.out = <<[to |-> {p}, ev |-> "gameError"]>>
            /\ r.h = hilar

\* C19: in the BATTLE phase of a two-player Duel, as long as the round has
\* not been signalled over both players have health above zero; a shot after
\* which exactly one player has health above zero while both had before sets
\* roundOver and records that player as the winner; a shot after which both
\* have health above zero changes neither roundOver nor the winner; and a
\* shot that sets roundOver leaves exactly one player with health above
\* zero, the recorded winner.
C19_RoundOverAtFirstLethalShot ==
  battle.currentRoundStage = "BATTLE" =>
    /\ ~battle.roundOver => Alive(battle) = DuelPlayers
    /\ \A p \in DuelPlayers, valid \in BOOLEAN :
       \A target \in Targets(p) :
         LET r == onShoot(battle, p, valid, target)
         IN /\ (Alive(battle) = DuelPlayers /\ Cardinality(Alive(r.b)) = 1) =>
                 r.b.roundOver /\ {r.b.winner} = Alive(r.b)
            /\ Alive(r.b) = DuelPlayers =>
                 r.b.roundOver = battle.roundOver /\ r.b.winner = battle.winner
            /\ (r.b.roundOver /\ ~battle.roundOver) =>
                 /\ {r.b.winner} = Alive(r.b)
                 /\ \E x \in DuelPlayers : r.b.health[x] = 0
                 /\ \A x \in DuelPlayers : x # target => r.b.health[x] = battle.health[x]

\* The second round's battle has been decided: player 2 has lost all health
\* to player 1, who was hit as well, and the round is signalled over with
\* player 1 as the winner.
C19_SecondBattleDecided ==
  /\ battle.currentRoundStage = "BATTLE"
  /\ battle.currentRound = 2
  /\ battle.roundOver
  /\ battle.winner = 1
  /\ battle.health[2] = 0
  /\ battle.health[1] \in 1..(STARTING_HEALTH - 1)

\* C20: whenever a Holdem room is about to start a hand (its loop is about
\* to call playRound), the deck the hand will be dealt from holds all 52
\* cards, and no room's dealing has ever drawn from an empty deck.
C20_FreshDeckEveryHand ==
  \A r \in HoldemRooms(holdem) :
    /\ holdem.rooms[r].pc # "thrown"
    /\ ( \/ holdem.rooms[r].pc = "created"
         \/ holdem.rooms[r].pc = "between" /\ holdem.rooms[r].i + 1 < HOLDEM_N_ROUNDS )
         => deckCards(newDeck(holdem, r), r) = DECK_SIZE

\* C21: whenever the bet wait of the asked player ends (by its poll or by
\* its timeout), the action received is applied or the player folds, and:
\* an applied CHECK had nothing to call and moves no money; an applied CALL
\* was affordable and moves exactly the call amount from the player's money
\* to the player's bet and to the pot; an applied RAISE exceeded the call
\* amount, was affordable and within BET_LIMIT, and moves exactly its amount;
\* every other action or amount, and a CHECK, CALL or RAISE that does not
\* meet its condition, folds the player and moves no money.
C21_BetLegality ==
  holdem.pc = "betWait" =>
    \A polled \in BOOLEAN :
      LET p == holdem.asked
          t == betWaitOver(holdem, polled).t
          call == holdem.callAmount
          amount == holdem.askedAmount
          moved(x) == /\ t.bet[p] = holdem.bet[p] + x
                      /\ t.pot = holdem.pot + x
                      /\ t.money[p] = holdem.money[p] - x
          legal == \/ holdem.askedAction = "CHECK" /\ call = 0
                   \/ holdem.askedAction = "CALL" /\ holdem.money[p] >= call
                   \/ /\ holdem.askedAction = "RAISE"
                      /\ amount > call
                      /\ amount <= holdem.money[p]
                      /\ amount <= Units(BET_LIMIT)
      IN /\ p = holdem.askedUserId /\ ~holdem.hasFolded[p]
         /\ call = holdem.roundTotal - holdem.bet[p]
         /\ t.beenAsked[p]
         /\ t.hasFolded[p] <=> ~legal
         /\ \A q \in TablePlayers \ {p} :
              /\ t.bet[q] = holdem.bet[q]
              /\ t.hasFolded[q] = holdem.hasFolded[q]
              /\ t.hasFolded[p] => t.money[q] - holdem.money[q] \in {0, holdem.pot}
              /\ ~t.hasFolded[p] => t.money[q] = holdem.money[q]
         /\ t.hasFolded[p] => moved(0)
         /\ (~t.hasFolded[p] /\ holdem.askedAction = "CHECK") => moved(0)
         /\ (~t.hasFolded[p] /\ holdem.askedAction = "CALL") => moved(call)
         /\ (~t.hasFolded[p] /\ holdem.askedAction = "RAISE") =>
              moved(amount) /\ t.roundTotal = t.bet[p]

\* A player has answered CALL without the money for the call amount and has
\* been folded; the betting goes on with the next player.
C21_UnaffordableCallFolded ==
  /\ holdem.pc = "display"
  /\ holdem.askedAction = "CALL"
  /\ holdem.asked \in TablePlayers
  /\ holdem.hasFolded[holdem.asked]
  /\ holdem.beenAsked[holdem.asked]
  /\ holdem.money[holdem.asked] < holdem.callAmount
  /\ holdem.money[holdem.asked] > 0

\* C22: when a doBetting has ended without a winner (the loop waits before
\* the next street or before the showdown), every player who has not folded
\* has had a turn in that doBetting, is marked as asked and has bet exactly
\* roundTotal; and as long as such a player is missing the loop is still
\* inside doBetting.
C22_BettingEndsMatched ==
  LET ended == \/ holdem.pc = "showdownWait"
               \/ holdem.pc = "roundWait" /\ holdem.currentRoundStage # "PREFLOP"
      matched(t) == \A p \in notFolded(t) :
                      /\ \E k \in 1..Len(t.roundPlayers) : t.roundPlayers[k] = p
                      /\ p \in t.turns
                      /\ t.beenAsked[p]
                      /\ t.bet[p] = t.roundTotal
  IN /\ ended => matched(holdem) /\ Cardinality(notFolded(holdem)) >= 2
     /\ holdem.pc \in {"display", "betWait"} =>
          \A polled \in BOOLEAN :
            LET r == IF holdem.pc = "display" THEN askPlayer(holdem)
                     ELSE betWaitOver(holdem, polled)
            IN r.t.pc \in {"roundWait", "showdownWait"} => matched(r.t)

\* The betting before the flop has ended after a raise to 3 that all three
\* players have matched, and the flop has been dealt.
C22_RaisedAndMatched ==
  /\ holdem.pc = "roundWait"
  /\ holdem.currentRoundStage = "FLOP"
  /\ holdem.roundTotal = Units(3)
  /\ notFolded(holdem) = TablePlayers
  /\ holdem.river = 3

C24_LowestScoresSplitThePot ==
  LET lowestOf(scores, in) ==
        {p \in in : \A q \in in : scores[p] <= scores[q]}
      exact(w, set) ==
        /\ {w[k] : k \in 1..Len(w)} = set
        /\ Len(w) = Cardinality(set)
  IN /\ holdem.pc \in {"created", "showdownWait"} =>
          \A scores \in [TablePlayers -> Scores], folded \in [TablePlayers -> BOOLEAN] :
            LET in == {p \in TablePlayers : ~folded[p]}
            IN in # {} => exact(getWinners(scores, folded), lowestOf(scores, in))
     /\ holdem.pc = "showdownWait" =>
          \A scores \in [TablePlayers -> Scores] :
            LET t == doShowdown(holdem, scores).t
                winners == lowestOf(scores, notFolded(holdem))
                n == Cardinality(winners)
            IN /\ n >= 1
               /\ t.pc = "between"
               /\ t.pot = holdem.pot
               /\ \A p \in winners : n * (t.money[p] - holdem.money[p]) = holdem.pot
               /\ \A p \in TablePlayers \ winners : t.money[p] = holdem.money[p]

\* A showdown between three players has been won by two of them with equal
\* scores: each has received half of the pot and the third nothing.
C24_TwoWinnersShareThePot ==
  /\ holdem.pc = "between"
  /\ holdem.currentRoundStage = "SHOWDOWN"
  /\ notFolded(holdem) = TablePlayers
  /\ holdem.pot > 0
  /\ \E a, b \in TablePlayers :
       /\ a # b
       /\ holdem.money[a] = holdem.money[b]
       /\ 2 * holdem.money[a] = 2 * (Units(STARTING_MONEY) - holdem.pot \div 3) + holdem.pot
       /\ \A c \in TablePlayers \ {a, b} :
            holdem.money[c] = Units(STARTING_MONEY) - holdem.pot \div 3

\* Round loop l of a live room is suspended at a wait for the players: the
\* respond or vote wait of Hilar, the ready-up or battle wait of Duel.
AtPlayerWait(l) ==
  /\ holdem = Idle
  /\ l \in DOMAIN loops
  /\ loops[l].pc \in {"respond", "vote", "menu", "battle"}
  /\ loops[l].g \in LiveGames(St)

\* The round loop of the table is suspended at the bet-request wait.
AtBetWait == holdem # Idle /\ holdem.pc = "betWait"

C26_WaitUntilTimeout ==
  /\ [][(promise.timer /\ ~promise'.timer /\ ~promise.pass)
          => /\ promise'.callbacks = 1
             /\ promise.resolveAfterTimeout => promise'.resolved]_vars
  /\ [][(~promise.timer /\ ~promise.resolved) => ~promise'.resolved]_vars
  /\ (promise.pass /\ promise.timer) ~> promise.resolved

\* C27: in a begun room whose handlers are attached, an event that arrives
\* in a stage that does not take it returns exactly one gameError, to its
\* sender, and the state it leaves is the state it found: a Hilar
\* questionResponse outside RESPOND and a vote outside VOTE, whatever they
\* carry; a Duel duelReady outside MENU and a duelMove, duelShoot or duelAim
\* outside BATTLE; a Holdem betResponse of a player who is not the one asked.
C27_OutOfPhaseEventsRejected ==
  /\ (hilar # Idle /\ hilar.pc \notin {"created", "spin"}) =>
       \A p \in HilarPlayers(hilar) :
         /\ hilar.currentRoundStage # "RESPOND" =>
              \A valid \in BOOLEAN :
                onQuestionResponse(hilar, p, valid)
                  = [out |-> <<[to |-> {p}, ev |-> "gameError"]>>, h |-> hilar]
         /\ hilar.currentRoundStage # "VOTE" =>
              \A vote \in {-1, 0, 1} :
                onVote(hilar, p, vote)
                  = [out |-> <<[to |-> {p}, ev |-> "gameError"]>>, h |-> hilar]
  /\ (battle # Idle /\ battle.pc # "created") =>
       \A p \in DuelPlayers :
         LET rejected == [out |-> <<[to |-> {p}, ev |-> "gameError", arg |-> 0]>>,
                          b |-> battle]
         IN /\ battle.currentRoundStage # "MENU" => onReady(battle, p) = rejected
            /\ battle.currentRoundStage # "BATTLE" =>
                 \A valid \in BOOLEAN :
                   /\ onMove(battle, p, valid) = rejected
                   /\ \A target \in Targets(p) :
                        onShoot(battle, p, valid, target) = rejected
                   /\ \A direction \in Angles :
                        onAim(battle, p, valid, direction) = rejected
  /\ (holdem # Idle /\ holdem.pc # "created") =>
       \A p \in TablePlayers :
         p # holdem.askedUserId =>
           \A payload \in BetPayloads :
             onBetResponse(holdem, p, payload)
               = [out |-> <<[to |-> {p}, ev |-> "gameError", arg |-> 0]>>,
                  t |-> holdem]

\* A Hilar room is voting and has taken a response of player 1 before: a
\* further response of player 1 comes outside RESPOND and is rejected.
C27_ResponseWhileVoting ==
  /\ hilar # Idle
  /\ hilar.currentRoundStage = "VOTE"
  /\ hilar.responses[1] > 0
  /\ onQuestionResponse(hilar, 1, TRUE).h = hilar
  /\ onQuestionResponse(hilar, 1, TRUE).out # <<>>

\* C28: in a begun room, an event that comes in its stage and is answered
\* with a gameError leaves the game object as it found it: a Hilar
\* questionResponse in RESPOND (invalid text, or a third response) and a
\* vote in VOTE (not +1/-1, or from a player who may not vote), a Duel
\* duelMove, duelShoot or duelAim in BATTLE with an invalid direction.
C28_RejectedContentChangesNothing ==
  /\ (hilar # Idle /\ hilar.pc \notin {"created", "spin"}) =>
       \A p \in HilarPlayers(hilar) :
         /\ hilar.currentRoundStage = "RESPOND" =>
              \A valid \in BOOLEAN :
                LET r == onQuestionResponse(hilar, p, valid)
                IN r.out # <<>> => r.h = hilar
         /\ hilar.currentRoundStage = "VOTE" =>
              \A vote \in {-1, 0, 1} :
                LET r == onVote(hilar, p, vote)
                IN r.out # <<>> => r.h = hilar
  /\ (battle # Idle /\ battle.currentRoundStage = "BATTLE") =>
       \A p \in DuelPlayers :
         LET rejected(r) == r.out = DuelEmit({p}, "gameError", 0)
         IN /\ rejected(onMove(battle, p, FALSE)) =>
                 onMove(battle, p, FALSE).b = battle
            /\ \A target \in Targets(p) :
                 rejected(onShoot(battle, p, FALSE, target)) =>
                   onShoot(battle, p, FALSE, target).b = battle
            /\ \A direction \in Angles :
                 rejected(onAim(battle, p, FALSE, direction)) =>
                   onAim(battle, p, FALSE, direction).b = battle

\* C29: a Holdem room whose round loop has met a deck that yields no card
\* (while dealing the hole cards or the community cards) has sent its
\* members a server-error message and has been ended through its
\* end-of-life callback, and its loop runs no further round or phase.
C29_InternalErrorEndsRoom ==
  /\ [](\A r \in HoldemRooms(holdem) :
         holdem.rooms[r].pc = "thrown" =>
           holdem.rooms[r].errorSent /\ holdem.rooms[r].ended)
  /\ [][\A r \in HoldemRooms(holdem) :
          holdem.rooms[r].pc = "thrown" =>
            /\ holdem'.rooms[r].pc = "thrown"
            /\ holdem'.rooms[r].currentRound = holdem.rooms[r].currentRound
            /\ holdem'.rooms[r].currentRoundStage = holdem.rooms[r].currentRoundStage]_vars

C31_DisconnectedIdentityUnmapped ==
  promise.pc = "session" =>
    /\ \A u \in Users : clients[u] \notin promise.closed
    /\ \A g \in LiveGames(St) : Audience(St, g) \cap promise.closed = {}

\* C32: a beginGame command of the creator of a room that has already begun
\* starts no round loop, broadcasts no gameBegin and attaches no handler.
C32_RoundLoopStartedOnce ==
  \A s \in DOMAIN sockUser : \A spin \in BOOLEAN :
    LET g == getPlayerGame(St, sockUser[s])
        r == beginGame(St, s, spin)
    IN (g # 0 /\ games[g].hasBegun /\ games[g].creatorId = sockUser[s]) =>
         /\ Len(r.st.loops) = Len(loops)
         /\ \A k \in DOMAIN r.out : r.out[k].ev # "gameBegin"
         /\ r.st.listeners = listeners

\* C33: the join timeout of a room removes or notifies no room but its
\* own, and when its own room is no longer live it sends nothing and removes
\* nothing.
C33_JoinTimeoutActsOnItsRoom ==
  (timers # <<>> /\ Head(timers).kind = "join") =>
    LET g == Head(timers).g
        r == joinTimeout(St, g)
    IN /\ \A c \in Codes : activeGames[c] # g => r.st.activeGames[c] = activeGames[c]
       /\ g \notin LiveGames(St) => r.out = <<>>

\* C34: the ready-up timeout of a MENU phase that the round loop has left
\* (all players readied up) removes no room and sends nothing when it
\* elapses.
C34_PassedMenuNeverTimesOut ==
  (timers # <<>> /\ Head(timers).kind = "ready") =>
    LET t == Head(timers)
        r == readyTimeout(St, t)
    IN ~(loops[t.l].pc = "menu" /\ loops[t.l].sig = t.sig) =>
         /\ r.st.activeGames = activeGames
         /\ r.out = <<>>

\* C35: assignQuestions returns for every roster and every sequence of
\* draws: no round loop is ever inside the do-while of assignQuestions with a
\* pool that holds nothing but the player's first prompt, which no draw can
\* leave.
C35_AssignQuestionsReturns == hilar.pc # "spin"

\* No socket carries the handlers of one room twice.
AttachedOnce(st) ==
  \A s \in DOMAIN st.listeners : \A i, j \in DOMAIN st.listeners[s] :
    i # j => st.listeners[s][i] # st.listeners[s][j]

\* C36: no command leaves a connection with two registrations of the
\* handlers of one room: neither the beginGame of a room that has not begun,
\* nor a joinGame, nor a new connection of a member.
C36_HandlersAttachedOnce ==
  /\ \A s \in DOMAIN sockUser :
       LET g == getPlayerGame(St, sockUser[s])
       IN /\ (g # 0 /\ ~games[g].hasBegun) =>
               \A spin \in BOOLEAN : AttachedOnce(beginGame(St, s, spin).st)
          /\ \A joinCode \in Codes : AttachedOnce(joinGame(St, joinCode, s, FALSE).st)
  /\ \A u \in Users : AttachedOnce(handleNewConnection(St, u).st)

\* C37: whenever doBetting asks a player for a bet and starts to wait, the
\* signal askedHasBet is clear, so that only a response of that player can
\* end the wait before the automatic fold.
C37_SignalClearWhenAsked ==
  holdem.pc = "display" =>
    LET t == askPlayer(holdem).t
    IN t.pc = "betWait" => ~t.askedHasBet

\* C38: once a round is decided, no shot handled while the stage is still
\* BATTLE changes the health of a player or the recorded winner, and in the
\* RESULTS stage the announced winner has health above zero and every other
\* player has health zero.
C38_ResultMatchesHealth ==
  /\ (battle.currentRoundStage = "BATTLE" /\ battle.roundOver) =>
       \A p \in DuelPlayers, valid \in BOOLEAN :
         \A target \in Targets(p) :
           LET r == onShoot(battle, p, valid, target)
           IN r.b.health = battle.health /\ r.b.winner = battle.winner
  /\ battle.currentRoundStage = "RESULTS" =>
       \E w \in DuelPlayers :
         /\ battle.winner = w
         /\ battle.health[w] > 0
         /\ \A p \in DuelPlayers \ {w} : battle.health[p] = 0

\* C39: the creator of every live room is in its roster, so no live room
\* has an empty roster.
C39_CreatorStaysInLiveRoom ==
  \A g \in LiveGames(St) :
    /\ games[g].creatorId \in games[g].players
    /\ games[g].players # {}

\* The money of all players of the table, and what it was when the hand
\* began: every hand of the table begins with the money the players were
\* created with, in whatever hands it is by then.
TotalMoney(t) == SumSeq(t.money)

HandStartMoney == Cardinality(TablePlayers) * Units(STARTING_MONEY)

\* No player owes money, no player has bet more than the round total, and
\* the pot and the players together hold what the players held when the hand
\* began.
MoneyKept(t) ==
  /\ \A p \in TablePlayers : t.money[p] >= 0
  /\ \A p \in TablePlayers : t.bet[p] <= t.roundTotal
  /\ t.pot + TotalMoney(t) = HandStartMoney

\* C40: on a table whose roster does not change, during every hand and after
\* every betting action (the forced bets of the blinds, the processing of a
\* response and the automatic fold) no player's money is below zero, no
\* player's bet is above roundTotal and the pot plus the money of all
\* players is the money of all players at the start of the hand; after
\* finishRound, for every outcome of the showdown, the money of all players
\* is that sum again.
C40_MoneyIsConserved ==
  /\ holdem.pc \in {"roundWait", "display", "betWait", "showdownWait"} =>
       MoneyKept(holdem)
  /\ holdem.pc \in {"between", "done"} =>
       /\ \A p \in TablePlayers : holdem.money[p] >= 0
       /\ TotalMoney(holdem) = HandStartMoney
  /\ LET after(t) ==
           IF t.pc \in {"between", "done"} THEN TotalMoney(t) = HandStartMoney
           ELSE MoneyKept(t)
     IN /\ holdem.pc = "display" => after(askPlayer(holdem).t)
        /\ holdem.pc = "betWait" =>
             \A polled \in BOOLEAN : after(betWaitOver(holdem, polled).t)
        /\ holdem.pc = "showdownWait" =>
             \A scores \in [TablePlayers -> Scores] :
               TotalMoney(doShowdown(holdem, scores).t) = HandStartMoney

\* A hand played at the table has ended with a pot that was paid out: a
\* player holds more than the starting money, another less.
C40_PotPaidOut ==
  /\ holdem.pc = "between"
  /\ holdem.hands = 1
  /\ holdem.pot > 0
  /\ \E p, q \in TablePlayers :
       /\ holdem.money[p] > Units(STARTING_MONEY)
       /\ holdem.money[q] < Units(STARTING_MONEY)

====
